---- MODULE Spec2Model ----
(***************************************************************************)
(* pidgin-lang: the bytecode compiler (compiler/compiler.go), the chunk    *)
(* (vm/chunk.go), the NaN-boxed value encoding (vm/value.go) and the stack *)
(* virtual machine (vm/vm.go), driven by the REPL loop of main.go.         *)
(*                                                                         *)
(* A session is a sequence of input lines, each an already parsed syntax   *)
(* tree.  Every line is compiled by a fresh Compiler into a fresh Chunk    *)
(* and run on the session's single VM, one dispatched instruction per      *)
(* step.  A session of one line is what compileAndRun and runFile do.      *)
(***************************************************************************)
EXTENDS Integers, Sequences, FiniteSets, TLC

(***************************************************************************)
(* Bounds of the model.                                                    *)
(***************************************************************************)
MaxN == 3

(***************************************************************************)
(* Value encoding (vm/value.go).  A Value is a 64-bit word: the fixed      *)
(* quiet-NaN prefix, a 3-bit tag and a 48-bit payload.  The payload is     *)
(* kept as two 24-bit limbs, hi and lo (payload = hi * 2^24 + lo).  For    *)
(* the pointer kinds the payload is an address, kept as the reference      *)
(* ref = (owning chunk, content): InternString hands out one address per   *)
(* content and chunk.                                                      *)
(***************************************************************************)
TAG_INT == 0
TAG_BOOL == 1
TAG_NOTHING == 2
TAG_STRING == 3
TAG_FUNC == 4
TAG_BUILTIN == 5
TAG_ERROR == 6

LIMB == 4096 * 4096
HALF_LIMB == LIMB \div 2

NullRef == [chunk |-> 0, s |-> ""]

NewInt(i) ==
  [tag |-> TAG_INT, hi |-> (i \div LIMB) % LIMB, lo |-> i % LIMB, ref |-> NullRef]

NewBool(b) ==
  [tag |-> TAG_BOOL, hi |-> 0, lo |-> IF b THEN 1 ELSE 0, ref |-> NullRef]

NewNothing ==
  [tag |-> TAG_NOTHING, hi |-> 0, lo |-> 0, ref |-> NullRef]

NewString(ptr) ==
  [tag |-> TAG_STRING, hi |-> 0, lo |-> 0, ref |-> ptr]

NewBuiltin(index) ==
  [tag |-> TAG_BUILTIN, hi |-> (index \div LIMB) % LIMB, lo |-> index % LIMB, ref |-> NullRef]

GetTag(v) == v.tag

IsInt(v) == GetTag(v) = TAG_INT
IsBool(v) == GetTag(v) = TAG_BOOL
IsNothing(v) == GetTag(v) = TAG_NOTHING
IsString(v) == GetTag(v) = TAG_STRING
IsBuiltin(v) == GetTag(v) = TAG_BUILTIN

\* sign-extends the 48-bit payload: bit 47 is the top bit of the hi limb
AsInt(v) ==
  IF v.hi >= HALF_LIMB THEN (v.hi - LIMB) * LIMB + v.lo ELSE v.hi * LIMB + v.lo

(***************************************************************************)
(* The same two functions at the full width of their int64 argument and    *)
(* result, which the integers of the model above do not reach.  An int64   *)
(* is kept as its two's complement bits: top (bits 48..63), hi (24..47)    *)
(* and lo (0..23).                                                         *)
(***************************************************************************)
TOP_LIMB == 256 * 256

Int64(top, hi, lo) == [top |-> top, hi |-> hi, lo |-> lo]

MAX_INT_48 == Int64(0, HALF_LIMB - 1, LIMB - 1)
MIN_INT_48 == Int64(TOP_LIMB - 1, HALF_LIMB, 0)

\* i48 := uint64(i) & PAYLOAD_MASK; Value(QNAN_BASE | (TAG_INT << TAG_SHIFT) | i48)
NewIntOfWord(i) == [tag |-> TAG_INT, hi |-> i.hi, lo |-> i.lo, ref |-> NullRef]

\* a read that does not extend the sign
AsIntWordUnextended(v) == Int64(0, v.hi, v.lo)

\* i48 := int64(v & PAYLOAD_MASK); if i48&0x800000000000 != 0 { return i48 |
\* ^int64(PAYLOAD_MASK) }; return i48
AsIntWord(v) ==
  IF v.hi >= HALF_LIMB THEN Int64(TOP_LIMB - 1, v.hi, v.lo) ELSE Int64(0, v.hi, v.lo)

AsBool(v) == v.lo % 2 # 0

AsString(v) == v.ref

AsBuiltin(v) == v.hi * LIMB + v.lo

TypeName(v) ==
  CASE GetTag(v) = TAG_INT -> "number"
    [] GetTag(v) = TAG_BOOL -> "boolean"
    [] GetTag(v) = TAG_NOTHING -> "nothing"
    [] GetTag(v) = TAG_STRING -> "string"
    [] GetTag(v) = TAG_FUNC -> "function"
    [] GetTag(v) = TAG_BUILTIN -> "builtin"
    [] GetTag(v) = TAG_ERROR -> "error"
    [] OTHER -> "unknown"

\* Value.String: %d of the integer, tru/lie, nothing, the string's content
ValueString(v) ==
  CASE GetTag(v) = TAG_INT -> ToString(AsInt(v))
    [] GetTag(v) = TAG_BOOL -> IF AsBool(v) THEN "tru" ELSE "lie"
    [] GetTag(v) = TAG_NOTHING -> "nothing"
    [] GetTag(v) = TAG_STRING -> AsString(v).s
    [] GetTag(v) = TAG_FUNC -> "<function>"
    [] GetTag(v) = TAG_BUILTIN -> "<builtin " \o ToString(AsBuiltin(v)) \o ">"
    [] OTHER -> "<unknown>"

\* a truthiness that also takes the integer 0 and the empty string for false
IsFalseyOrEmpty(v) ==
  IF IsBool(v) THEN ~AsBool(v)
  ELSE IF IsNothing(v) THEN TRUE
  ELSE IF IsInt(v) THEN AsInt(v) = 0
  ELSE IF IsString(v) THEN AsString(v).s = ""
  ELSE FALSE

IsFalsey(v) ==
  IF IsBool(v) THEN ~AsBool(v)
  ELSE IF IsNothing(v) THEN TRUE
  ELSE FALSE

IsTruthy(v) == ~IsFalsey(v)

\* an equality of the words alone, which never looks at what a string holds
EqualsBitwise(v, other) == v = other

Equals(v, other) ==
  IF v = other THEN TRUE
  ELSE IF GetTag(v) # GetTag(other) THEN FALSE
  ELSE IF IsString(v) THEN AsString(v).s = AsString(other).s
  ELSE FALSE

(***************************************************************************)
(* Opcodes (vm/opcode.go).                                                 *)
(***************************************************************************)
OP_CONST_0 == 0
OP_CONST_1 == 1
OP_CONST_MINUS1 == 2
OP_NOTHING == 3
OP_TRU == 4
OP_LIE == 5
OP_CONSTANT == 6
OP_CONST_I8 == 7
OP_CONST_I16 == 8
OP_ADD == 10
OP_SUB == 11
OP_MUL == 12
OP_DIV == 13
OP_NEGATE == 14
OP_EQUAL == 20
OP_NOT_EQUAL == 21
OP_GREATER == 22
OP_LESS == 23
OP_NOT == 30
OP_GET_GLOBAL == 43
OP_SET_GLOBAL == 44
OP_JUMP == 45
OP_JUMP_IF_LIE == 46
OP_JUMP_IF_TRU == 47
OP_LOOP == 48
OP_CALL_0 == 55
OP_CALL_1 == 56
OP_CALL_2 == 57
OP_CALL == 58
OP_BRING == 61
OP_YARN == 65
OP_BUILTIN == 66
OP_POP == 75
OP_DUP == 76
OP_HALT == 85

(***************************************************************************)
(* Chunk (vm/chunk.go): code bytes, constant pool, line table and intern   *)
(* table.  Code offsets are 0-based as in the source: byte k of the code   *)
(* is code[k + 1].  The intern table maps a content to its address, so it  *)
(* is the set of the contents interned so far.                             *)
(***************************************************************************)
NewChunk(id) ==
  [id |-> id, code |-> <<>>, constants |-> <<>>, lines |-> <<>>, strings |-> {}]

WriteByte(ch, b, line) ==
  [ch EXCEPT !.code = Append(@, b), !.lines = Append(@, line)]

Count(ch) == Len(ch.code)

\* index (0-based) of the first pooled value that Equals value, or -1
FindConstant(ch, value) ==
  LET hits == {i \in 1..Len(ch.constants) : Equals(ch.constants[i], value)}
  IN IF hits = {} THEN -1
     ELSE (CHOOSE i \in hits : \A j \in hits : i <= j) - 1

ChunkAddConstant(ch, value) ==
  IF FindConstant(ch, value) >= 0 THEN ch
  ELSE [ch EXCEPT !.constants = Append(@, value)]

ChunkAddConstantIndex(ch, value) ==
  IF FindConstant(ch, value) >= 0 THEN FindConstant(ch, value)
  ELSE Len(ch.constants)

InternString(ch, s) == [ch EXCEPT !.strings = @ \cup {s}]

InternedPtr(ch, s) == [chunk |-> ch.id, s |-> s]

(***************************************************************************)
(* Symbol table (compiler/symbol_table.go).  A table whose outer is nil    *)
(* has no outer field.  The compiler only ever uses such a table.          *)
(***************************************************************************)
SCOPE_GLOBAL == 0
SCOPE_LOCAL == 1
SCOPE_UPVALUE == 2
SCOPE_BUILTIN == 3

NewSymbolTable == [store |-> <<>>, numDefinitions |-> 0]

NewEnclosedSymbolTable(outer) == [outer |-> outer, store |-> <<>>, numDefinitions |-> 0]

HasOuter(st) == "outer" \in DOMAIN st

Define(st, name) ==
  [st EXCEPT
     !.store = [n \in DOMAIN st.store \cup {name} |->
                  IF n = name
                  THEN [Name |-> name,
                        Scope |-> IF HasOuter(st) THEN SCOPE_LOCAL ELSE SCOPE_GLOBAL,
                        Index |-> st.numDefinitions]
                  ELSE st.store[n]],
     !.numDefinitions = st.numDefinitions + 1]

DefineBuiltin(st, index, name) ==
  [st EXCEPT
     !.store = [n \in DOMAIN st.store \cup {name} |->
                  IF n = name
                  THEN [Name |-> name, Scope |-> SCOPE_BUILTIN, Index |-> index]
                  ELSE st.store[n]]]

\* the bool Resolve returns
RECURSIVE ResolveOk(_, _)
ResolveOk(st, name) ==
  IF name \in DOMAIN st.store THEN TRUE
  ELSE IF HasOuter(st) THEN ResolveOk(st.outer, name)
  ELSE FALSE

\* the Symbol Resolve returns: what the outer table returns is returned as it
\* is, a SCOPE_LOCAL symbol too
RECURSIVE Resolve(_, _)
Resolve(st, name) ==
  IF name \in DOMAIN st.store THEN st.store[name]
  ELSE IF HasOuter(st) THEN Resolve(st.outer, name)
  ELSE [Name |-> "", Scope |-> 0, Index |-> 0]

(***************************************************************************)
(* Syntax trees (ast/ast.go), as the parser hands them to the compiler.    *)
(* A node is a record whose kind is the name of its Go type.               *)
(***************************************************************************)
IntegerLiteral(n) == [kind |-> "IntegerLiteral", IntValue |-> n]
StringLiteral(s) == [kind |-> "StringLiteral", StrValue |-> s]
Boolean(b) == [kind |-> "Boolean", BoolValue |-> b]
NothingLiteral == [kind |-> "NothingLiteral"]
Identifier(name) == [kind |-> "Identifier", Name |-> name]
PrefixExpression(op, right) == [kind |-> "PrefixExpression", Operator |-> op, Right |-> right]
InfixExpression(left, op, right) ==
  [kind |-> "InfixExpression", Left |-> left, Operator |-> op, Right |-> right]
\* Consequence and Alternative are the statement lists of their blocks
SupposeExpression(cond, cons) ==
  [kind |-> "SupposeExpression", Condition |-> cond, Consequence |-> cons,
   HasAlternative |-> FALSE, Alternative |-> <<>>]
SupposeAbiExpression(cond, cons, alt) ==
  [kind |-> "SupposeExpression", Condition |-> cond, Consequence |-> cons,
   HasAlternative |-> TRUE, Alternative |-> alt]
WhileExpression(cond, body) == [kind |-> "WhileExpression", Condition |-> cond, Body |-> body]
CallExpression(fn, args) == [kind |-> "CallExpression", Function |-> fn, Arguments |-> args]
\* a function definition: the parser builds it, the compiler has no case for it
DoExpression == [kind |-> "DoExpression"]

ExpressionStatement(e) == [kind |-> "ExpressionStatement", Expression |-> e]
MakeStatement(name, value) == [kind |-> "MakeStatement", Name |-> name, Value |-> value]
BringStatement(value) == [kind |-> "BringStatement", HasValue |-> TRUE, ReturnValue |-> value]
BringNothingStatement == [kind |-> "BringStatement", HasValue |-> FALSE]
BlockStatement(stmts) == [kind |-> "BlockStatement", Statements |-> stmts]

(***************************************************************************)
(* Compiler (compiler/compiler.go).  A compile function takes the compiler *)
(* and returns it after the call.  err is the error the Go function        *)
(* returned ("" for nil) and panicked is set where the Go code panics: a   *)
(* function that got an error from a call returns it at once, so with      *)
(* either set every later step leaves the compiler as it is.  The          *)
(* positions a Go function keeps in its local variables (jumpIfFalse,      *)
(* jumpEnd, exitJump, loopStart) are kept in saved, innermost last.        *)
(* targets is history: for the operand of each jump patched and each loop  *)
(* emitted, by its offset, the position the compiler meant it to go to     *)
(* (Count() at the patch, or loopStart).                                   *)
(***************************************************************************)
New(id) ==
  [chunk |-> NewChunk(id),
   symbolTable |-> DefineBuiltin(DefineBuiltin(DefineBuiltin(NewSymbolTable,
                                   0, "yarn"), 1, "len"), 2, "type"),
   scopeDepth |-> 0,
   constants |-> <<>>,
   saved |-> <<>>,
   targets |-> <<>>,
   err |-> "",
   panicked |-> FALSE]

Failed(c) == c.err # "" \/ c.panicked

Errorf(c, msg) == IF Failed(c) THEN c ELSE [c EXCEPT !.err = msg]

emit(c, op) == IF Failed(c) THEN c ELSE [c EXCEPT !.chunk = WriteByte(@, op, 0)]

emitByte(c, op, operand) ==
  IF Failed(c) THEN c
  ELSE [c EXCEPT !.chunk = WriteByte(WriteByte(@, op, 0), operand, 0)]

emitBytes(c, op, operands) ==
  IF Failed(c) THEN c
  ELSE [c EXCEPT !.chunk = WriteByte(WriteByte(WriteByte(@, op, 0), operands[1], 0),
                                     operands[2], 0)]

emitShort(c, op, operand) ==
  IF Failed(c) THEN c
  ELSE [c EXCEPT !.chunk = WriteByte(WriteByte(WriteByte(@, op, 0),
                                               (operand \div 256) % 256, 0),
                                     operand % 256, 0)]

\* the position emitJump returns, Count() - 2 after the placeholder, is saved
emitJump(c, op) ==
  IF Failed(c) THEN c
  ELSE [c EXCEPT !.chunk = WriteByte(WriteByte(WriteByte(@, op, 0), 255, 0), 255, 0),
                 !.saved = Append(@, Len(c.chunk.code) + 1)]

\* saved without its k-th entry from the end
Unsave(saved, k) ==
  SubSeq(saved, 1, Len(saved) - k) \o SubSeq(saved, Len(saved) - k + 2, Len(saved))

\* patchJump(offset), offset being the k-th position from the end of saved
patchJump(c, k) ==
  IF Failed(c) THEN c
  ELSE LET offset == c.saved[Len(c.saved) - k + 1]
           jump == Count(c.chunk) - offset - 2
       IN IF jump > 65535
          THEN [c EXCEPT !.panicked = TRUE]
          ELSE [c EXCEPT !.chunk.code[offset + 1] = (jump \div 256) % 256,
                         !.chunk.code[offset + 2] = jump % 256,
                         !.saved = Unsave(@, k),
                         !.targets = (offset :> Count(c.chunk)) @@ @]

\* loopStart := c.chunk.Count()
markLoopStart(c) == IF Failed(c) THEN c ELSE [c EXCEPT !.saved = Append(@, Count(c.chunk))]

\* emitLoop(loopStart), loopStart being the k-th position from the end of saved
emitLoop(c, k) ==
  IF Failed(c) THEN c
  ELSE LET loopStart == c.saved[Len(c.saved) - k + 1]
           offset == (Count(c.chunk) + 1) - loopStart + 2
       IN IF offset > 65535
          THEN [c EXCEPT !.chunk = WriteByte(@, OP_LOOP, 0), !.panicked = TRUE]
          ELSE [c EXCEPT !.chunk = WriteByte(WriteByte(WriteByte(@, OP_LOOP, 0),
                                                       (offset \div 256) % 256, 0),
                                             offset % 256, 0),
                         !.saved = Unsave(@, k),
                         !.targets = ((Count(c.chunk) + 1) :> loopStart) @@ @]

\* the index addConstant returns: the compiler's own cache is keyed by value.String()
addConstantIndex(c, value) ==
  IF ValueString(value) \in DOMAIN c.constants
  THEN c.constants[ValueString(value)]
  ELSE ChunkAddConstantIndex(c.chunk, value)

\* an addConstant that appends to the pool without looking
addConstantAppending(c, value) == [c EXCEPT !.chunk.constants = Append(@, value)]

\* the compiler after addConstant
addConstant(c, value) ==
  IF ValueString(value) \in DOMAIN c.constants
  THEN c
  ELSE [c EXCEPT !.chunk = ChunkAddConstant(@, value),
                 !.constants = (ValueString(value) :> ChunkAddConstantIndex(c.chunk, value))
                                 @@ @]

\* idx := c.addConstant(value); c.emitShort(op, uint16(idx))
emitConstantOp(c, op, value) ==
  IF Failed(c) THEN c
  ELSE emitShort(addConstant(c, value), op, addConstantIndex(c, value) % 65536)

compileIntegerLiteral(c, node) ==
  IF node.IntValue = 0 THEN emit(c, OP_CONST_0)
  ELSE IF node.IntValue = 1 THEN emit(c, OP_CONST_1)
  ELSE IF node.IntValue = -1 THEN emit(c, OP_CONST_MINUS1)
  ELSE IF node.IntValue >= -128 /\ node.IntValue <= 127
  THEN emitByte(c, OP_CONST_I8, node.IntValue % 256)
  ELSE IF node.IntValue >= -32768 /\ node.IntValue <= 32767
  THEN emitShort(c, OP_CONST_I16, node.IntValue % 65536)
  ELSE emitConstantOp(c, OP_CONSTANT, NewInt(node.IntValue))

\* ptr := c.chunk.InternString(s); idx := c.addConstant(vm.NewString(ptr));
\* c.emitShort(op, uint16(idx))
emitNamed(c, op, s) ==
  IF Failed(c) THEN c
  ELSE emitConstantOp([c EXCEPT !.chunk = InternString(@, s)], op,
                      NewString(InternedPtr(c.chunk, s)))

compileStringLiteral(c, node) == emitNamed(c, OP_CONSTANT, node.StrValue)

compileBooleanLiteral(c, node) ==
  IF node.BoolValue THEN emit(c, OP_TRU) ELSE emit(c, OP_LIE)

\* a compiler that takes every name it cannot resolve for a global
compileIdentifierAsGlobal(c, node) == emitNamed(c, OP_GET_GLOBAL, node.Name)

compileIdentifier(c, node) ==
  IF ~ResolveOk(c.symbolTable, node.Name)
  THEN Errorf(c, "I no sabi dis one: " \o node.Name)
  ELSE CASE Resolve(c.symbolTable, node.Name).Scope = SCOPE_GLOBAL ->
              emitNamed(c, OP_GET_GLOBAL, node.Name)
         [] Resolve(c.symbolTable, node.Name).Scope = SCOPE_BUILTIN ->
              emitConstantOp(c, OP_CONSTANT,
                             NewBuiltin(Resolve(c.symbolTable, node.Name).Index))
         [] OTHER -> Errorf(c, "unknown symbol scope")

RECURSIVE compileExpression(_, _)
RECURSIVE compileStatement(_, _)
RECURSIVE compileArguments(_, _, _)
RECURSIVE compileBlockFrom(_, _, _)

\* for _, arg := range args { compileExpression(arg) }, from argument i on
compileArguments(c, args, i) ==
  IF Failed(c) \/ i > Len(args) THEN c
  ELSE compileArguments(compileExpression(c, args[i]), args, i + 1)

\* the switch on node.Operator of compilePrefixExpression
emitPrefixOperator(c, operator) ==
  CASE operator = "-" -> emit(c, OP_NEGATE)
    [] operator \in {"!", "no", "no be"} -> emit(c, OP_NOT)
    [] OTHER -> Errorf(c, "unknown prefix operator: " \o operator)

compilePrefixExpression(c, node) ==
  emitPrefixOperator(compileExpression(c, node.Right), node.Operator)

\* an `and` whose jump goes to the instruction after it: the right operand
\* is evaluated whatever the left one is
compileAndEvaluatingBoth(c, node) ==
  compileExpression(
    emit(patchJump(emitJump(emit(compileExpression(c, node.Left), OP_DUP), OP_JUMP_IF_LIE),
                   1),
         OP_POP),
    node.Right)

compileShortCircuitAnd(c, node) ==
  patchJump(
    compileExpression(
      emit(emitJump(emit(compileExpression(c, node.Left), OP_DUP), OP_JUMP_IF_LIE),
           OP_POP),
      node.Right),
    1)

compileShortCircuitOr(c, node) ==
  patchJump(
    compileExpression(
      emit(emitJump(emit(compileExpression(c, node.Left), OP_DUP), OP_JUMP_IF_TRU),
           OP_POP),
      node.Right),
    1)

\* the switch on node.Operator of compileInfixExpression
emitInfixOperator(c, operator) ==
  CASE operator = "+" -> emit(c, OP_ADD)
    [] operator = "-" -> emit(c, OP_SUB)
    [] operator = "*" -> emit(c, OP_MUL)
    [] operator = "/" -> emit(c, OP_DIV)
    [] operator \in {"be", "na", "=="} -> emit(c, OP_EQUAL)
    [] operator \in {"no be", "!="} -> emit(c, OP_NOT_EQUAL)
    [] operator \in {"big pass", ">"} -> emit(c, OP_GREATER)
    [] operator \in {"no reach", "<"} -> emit(c, OP_LESS)
    [] OTHER -> Errorf(c, "unknown infix operator: " \o operator)

compileInfixExpression(c, node) ==
  IF node.Operator = "and" THEN compileShortCircuitAnd(c, node)
  ELSE IF node.Operator \in {"abi", "or"} THEN compileShortCircuitOr(c, node)
  ELSE emitInfixOperator(compileExpression(compileExpression(c, node.Left), node.Right),
                         node.Operator)

\* the alternative of a conditional, or OP_NOTHING when there is none
compileAlternative(c, node) ==
  IF node.HasAlternative
  THEN compileStatement(c, BlockStatement(node.Alternative))
  ELSE emit(c, OP_NOTHING)

\* condition; jumpIfFalse := emitJump(JUMP_IF_LIE); consequence;
\* jumpEnd := emitJump(JUMP); patchJump(jumpIfFalse); alternative; patchJump(jumpEnd)
compileSupposeExpression(c, node) ==
  patchJump(
    compileAlternative(
      patchJump(
        emitJump(
          compileStatement(
            emitJump(compileExpression(c, node.Condition), OP_JUMP_IF_LIE),
            BlockStatement(node.Consequence)),
          OP_JUMP),
        2),
      node),
    1)

\* loopStart := Count(); condition; exitJump := emitJump(JUMP_IF_LIE); body;
\* emitLoop(loopStart); patchJump(exitJump); emit(OP_NOTHING)
compileWhileExpression(c, node) ==
  emit(
    patchJump(
      emitLoop(
        compileStatement(
          emitJump(compileExpression(markLoopStart(c), node.Condition), OP_JUMP_IF_LIE),
          BlockStatement(node.Body)),
        2),
      1),
    OP_NOTHING)

\* the instruction that ends a builtin call: OP_YARN for yarn, else OP_BUILTIN
emitBuiltin(c, name, builtinIdx, argCount) ==
  IF name = "yarn" THEN emitByte(c, OP_YARN, argCount % 256)
  ELSE emitBytes(c, OP_BUILTIN, <<builtinIdx % 256, argCount % 256>>)

compileBuiltinCall(c, name, builtinIdx, args) ==
  emitBuiltin(compileArguments(c, args, 1), name, builtinIdx, Len(args))

\* the instruction that ends a regular call
emitCall(c, argCount) ==
  IF argCount = 0 THEN emit(c, OP_CALL_0)
  ELSE IF argCount = 1 THEN emit(c, OP_CALL_1)
  ELSE IF argCount = 2 THEN emit(c, OP_CALL_2)
  ELSE emitByte(c, OP_CALL, argCount % 256)

compileCallExpression(c, node) ==
  IF /\ node.Function.kind = "Identifier"
     /\ ResolveOk(c.symbolTable, node.Function.Name)
     /\ Resolve(c.symbolTable, node.Function.Name).Scope = SCOPE_BUILTIN
  THEN compileBuiltinCall(c, node.Function.Name,
                          Resolve(c.symbolTable, node.Function.Name).Index,
                          node.Arguments)
  ELSE emitCall(compileExpression(compileArguments(c, node.Arguments, 1), node.Function),
                Len(node.Arguments))

compileExpression(c, expr) ==
  IF Failed(c) THEN c
  ELSE CASE expr.kind = "IntegerLiteral" -> compileIntegerLiteral(c, expr)
         [] expr.kind = "StringLiteral" -> compileStringLiteral(c, expr)
         [] expr.kind = "Boolean" -> compileBooleanLiteral(c, expr)
         [] expr.kind = "NothingLiteral" -> emit(c, OP_NOTHING)
         [] expr.kind = "Identifier" -> compileIdentifier(c, expr)
         [] expr.kind = "PrefixExpression" -> compilePrefixExpression(c, expr)
         [] expr.kind = "InfixExpression" -> compileInfixExpression(c, expr)
         [] expr.kind = "SupposeExpression" -> compileSupposeExpression(c, expr)
         [] expr.kind = "WhileExpression" -> compileWhileExpression(c, expr)
         [] expr.kind = "CallExpression" -> compileCallExpression(c, expr)
         [] OTHER -> Errorf(c, "unknown expression type: " \o expr.kind)

\* the statements of a block from statement i on: the last one, when it is an
\* expression statement, is compiled without the POP
compileBlockFrom(c, stmts, i) ==
  IF Failed(c) \/ i > Len(stmts) THEN c
  ELSE IF stmts[i].kind = "ExpressionStatement" /\ i = Len(stmts)
  THEN compileExpression(c, stmts[i].Expression)
  ELSE compileBlockFrom(compileStatement(c, stmts[i]), stmts, i + 1)

\* symbol, exists := Resolve(name); if !exists { Define(name) }; then SET_GLOBAL
\* with the name (scopeDepth is always 0)
defineAndSetGlobal(c, name) ==
  IF Failed(c) THEN c
  ELSE IF ResolveOk(c.symbolTable, name) THEN emitNamed(c, OP_SET_GLOBAL, name)
  ELSE emitNamed([c EXCEPT !.symbolTable = Define(@, name)], OP_SET_GLOBAL, name)

compileMakeStatement(c, node) ==
  defineAndSetGlobal(compileExpression(c, node.Value), node.Name)

compileBringStatement(c, node) ==
  IF node.HasValue THEN emit(compileExpression(c, node.ReturnValue), OP_BRING)
  ELSE emit(emit(c, OP_NOTHING), OP_BRING)

compileStatement(c, stmt) ==
  IF Failed(c) THEN c
  ELSE CASE stmt.kind = "ExpressionStatement" ->
              emit(compileExpression(c, stmt.Expression), OP_POP)
         [] stmt.kind = "MakeStatement" -> compileMakeStatement(c, stmt)
         [] stmt.kind = "BringStatement" -> compileBringStatement(c, stmt)
         [] stmt.kind = "BlockStatement" -> compileBlockFrom(c, stmt.Statements, 1)
         [] OTHER -> Errorf(c, "unknown statement type: " \o stmt.kind)

\* a compiler that follows every expression statement by POP, the last one too
compileStatementAlwaysPop(c, stmt, isLast) == compileStatement(c, stmt)

compileStatementWithContext(c, stmt, isLast) ==
  IF Failed(c) THEN c
  ELSE IF stmt.kind = "ExpressionStatement" /\ isLast
  THEN compileExpression(c, stmt.Expression)
  ELSE compileStatement(c, stmt)

\* the loop of Compile over program.Statements, up to and including statement n
RECURSIVE compileProgramUpTo(_, _, _)
compileProgramUpTo(c, program, n) ==
  IF n = 0 THEN c
  ELSE compileStatementWithContext(compileProgramUpTo(c, program, n - 1),
                                   program[n], n = Len(program))

\* Compile: the compiler after the call; it returns (chunk, nil) when err = ""
Compile(c, program) == emit(compileProgramUpTo(c, program, Len(program)), OP_HALT)

(***************************************************************************)
(* The operand stack (vm/vm.go, VM.stack and the stackTop that execute     *)
(* caches).  Only the slots below stackTop are ever read before they are   *)
(* written again, so the model keeps those: stack holds the slots          *)
(* 0 .. stackTop - 1, bottom first.  To let a stack of STACK_MAX entries   *)
(* be a small value, the slots are stored as runs: [v, n, d] stands for    *)
(* the n slots v, v + d, v + 2d, ... (d = 0 unless the slots are           *)
(* integers).  RunAt, StackPush, StackDrop and StackAt read and write that *)
(* form slot by slot.                                                      *)
(***************************************************************************)
STACK_MAX == 65536
FRAMES_MAX == 1024

RunAt(r, k) == IF r.d = 0 THEN r.v ELSE NewInt(AsInt(r.v) + k * r.d)

\* vm.stack[stackTop] = w; stackTop++
StackPush(st, w) ==
  LET r == st[Len(st)]
  IN IF st = <<>> THEN <<[v |-> w, n |-> 1, d |-> 0]>>
     ELSE IF r.n = 1 /\ IsInt(r.v) /\ IsInt(w)
     THEN [st EXCEPT ![Len(st)] = [v |-> r.v, n |-> 2, d |-> AsInt(w) - AsInt(r.v)]]
     ELSE IF r.n = 1 /\ r.v = w
     THEN [st EXCEPT ![Len(st)] = [v |-> r.v, n |-> 2, d |-> 0]]
     ELSE IF r.n >= 2 /\ IsInt(r.v) /\ IsInt(w) /\ AsInt(w) = AsInt(r.v) + r.n * r.d
     THEN [st EXCEPT ![Len(st)].n = r.n + 1]
     ELSE IF r.n >= 2 /\ r.d = 0 /\ r.v = w
     THEN [st EXCEPT ![Len(st)].n = r.n + 1]
     ELSE Append(st, [v |-> w, n |-> 1, d |-> 0])

\* stackTop--
StackDrop(st) ==
  LET r == st[Len(st)]
  IN IF r.n = 1 THEN SubSeq(st, 1, Len(st) - 1)
     ELSE IF r.n = 2 THEN [st EXCEPT ![Len(st)] = [v |-> r.v, n |-> 1, d |-> 0]]
     ELSE [st EXCEPT ![Len(st)].n = r.n - 1]

\* vm.stack[stackTop - 1]
StackTop(st) == RunAt(st[Len(st)], st[Len(st)].n - 1)

RECURSIVE StackDropN(_, _)
StackDropN(st, k) == IF k = 0 THEN st ELSE StackDropN(StackDrop(st), k - 1)

\* vm.stack[stackTop - 1 - distance]
StackPeek(st, distance) == StackTop(StackDropN(st, distance))

RECURSIVE StackDepth(_)
StackDepth(st) == IF st = <<>> THEN 0 ELSE st[Len(st)].n + StackDepth(SubSeq(st, 1, Len(st) - 1))

(***************************************************************************)
(* State.                                                                  *)
(*   input      the lines not yet read by the REPL loop (syntax trees)     *)
(*   program    the line being compiled or run                             *)
(*   lineNo     the number of lines read: the identity of the chunk        *)
(*   chunk      the chunk Compile returned, which vm.chunk points to       *)
(*   compileErr the error Compile returned ("" for nil)                    *)
(*   status     where the loop is: "idle", "compiled", "running",          *)
(*              "halted" (Run returned a value), "error" (Run returned a   *)
(*              runtime error), "compile_error", "panic" (the process      *)
(*              died of a Go panic)                                        *)
(*   stack, stackTop, ip, frameCount, globals: the VM's fields             *)
(*   result     the Value Run returned                                     *)
(*   err        the runtime error Run returned, or the panic's message     *)
(*   output     what OP_YARN wrote to standard output, in order            *)
(*   depthAt    history: for each code offset at which an instruction was  *)
(*              dispatched in this run, the stack depth at its first       *)
(*              dispatch                                                   *)
(***************************************************************************)
VARIABLES input, program, lineNo, chunk, compileErr, status,
          stack, stackTop, ip, frameCount, globals, result, err, output, depthAt

vars == <<input, program, lineNo, chunk, compileErr, status,
          stack, stackTop, ip, frameCount, globals, result, err, output, depthAt>>

NoError == [format |-> "", args |-> <<>>, line |-> 0]

(***************************************************************************)
(* The REPL loop (main.go, startREPL) and VM.Run.                          *)
(***************************************************************************)
\* one turn of the loop up to the call of Run: comp := compiler.New();
\* chunk, err := comp.Compile(program); on an error the loop continues
CompileLine ==
  /\ status \in {"idle", "halted", "error", "compile_error"}
  /\ input # <<>>
  /\ LET comp == Compile(New(lineNo + 1), Head(input))
     IN /\ compileErr' = comp.err
        /\ status' = IF comp.panicked THEN "panic"
                     ELSE IF comp.err # "" THEN "compile_error"
                     ELSE "compiled"
        /\ chunk' = IF Failed(comp) THEN chunk ELSE comp.chunk
        /\ err' = IF comp.panicked
                  THEN [format |-> "panic: %s", args |-> <<"Too much code to jump over">>, line |-> 0]
                  ELSE NoError
  /\ program' = Head(input)
  /\ input' = Tail(input)
  /\ lineNo' = lineNo + 1
  /\ result' = NewNothing
  /\ UNCHANGED <<stack, stackTop, ip, frameCount, globals, output, depthAt>>

\* a Run that does not reset the operand stack
RunKeepingStack ==
  /\ status = "compiled"
  /\ status' = "running"
  /\ frameCount' = 0
  /\ ip' = 0
  /\ depthAt' = <<>>
  /\ UNCHANGED <<input, program, lineNo, chunk, compileErr, globals, result, err, output,
                 stack, stackTop>>

\* vm.Reset(); vm.chunk = chunk; vm.ip = 0; then execute() starts
Run ==
  /\ status = "compiled"
  /\ status' = "running"
  /\ stackTop' = 0
  /\ stack' = <<>>
  /\ frameCount' = 0
  /\ ip' = 0
  /\ depthAt' = <<>>
  /\ UNCHANGED <<input, program, lineNo, chunk, compileErr, globals, result, err, output>>

(***************************************************************************)
(* The dispatch loop (vm/vm.go, execute): one action per case.             *)
(***************************************************************************)
readByte(at) == chunk.code[at + 1]

readShort(at) == chunk.code[at + 1] * 256 + chunk.code[at + 2]

\* int8(b) and int16(s)
Int8(b) == IF b >= 128 THEN b - 256 ELSE b
Int16(w) == IF w >= 32768 THEN w - 65536 ELSE w

\* operand bytes the case of an opcode reads (its readByte and readShort calls)
OperandBytes(op) ==
  IF op \in {OP_CONST_I8, OP_YARN} THEN 1
  ELSE IF op \in {OP_CONSTANT, OP_CONST_I16, OP_GET_GLOBAL, OP_SET_GLOBAL,
                  OP_JUMP, OP_JUMP_IF_LIE, OP_JUMP_IF_TRU, OP_LOOP} THEN 2
  ELSE 0

\* the name operand of OP_GET_GLOBAL and OP_SET_GLOBAL at offset `at`
GlobalName(at) == AsString(chunk.constants[readShort(at + 1) + 1]).s

\* the slots of vm.stack the case of an opcode indexes, as offsets from stackTop
\* (OP_GET_GLOBAL returns its error before it pushes; OP_YARN reads its
\* arguments and writes its result over the first of them)
StackIndexes(op, at) ==
  CASE op \in {OP_CONST_0, OP_CONST_1, OP_CONST_MINUS1, OP_NOTHING, OP_TRU, OP_LIE,
               OP_CONST_I8, OP_CONST_I16, OP_CONSTANT} -> {0}
    [] op \in {OP_ADD, OP_SUB, OP_MUL, OP_DIV, OP_EQUAL, OP_NOT_EQUAL,
               OP_GREATER, OP_LESS} -> {-1, -2}
    [] op \in {OP_NEGATE, OP_NOT, OP_SET_GLOBAL, OP_JUMP_IF_LIE, OP_JUMP_IF_TRU} -> {-1}
    [] op = OP_DUP -> {-1, 0}
    [] op = OP_GET_GLOBAL -> IF GlobalName(at) \in DOMAIN globals THEN {0} ELSE {}
    [] op = OP_YARN -> {-k : k \in 1..readByte(at + 1)} \cup {-readByte(at + 1)}
    [] OTHER -> {}

\* the slots among them that are outside the array
BadSlots(op, at) ==
  {stackTop + k : k \in {j \in StackIndexes(op, at) :
                           stackTop + j < 0 \/ stackTop + j >= STACK_MAX}}

\* the instruction at ip indexes the code, the constants or vm.stack out of range
IndexOutOfRange ==
  IF ip < 0 \/ ip >= Count(chunk) THEN TRUE
  ELSE \/ ip + OperandBytes(readByte(ip)) >= Count(chunk)
       \/ /\ readByte(ip) \in {OP_CONSTANT, OP_GET_GLOBAL, OP_SET_GLOBAL}
          /\ readShort(ip + 1) >= Len(chunk.constants)
       \/ BadSlots(readByte(ip), ip) # {}

Dispatch(op) ==
  /\ status = "running"
  /\ ip >= 0
  /\ ip < Count(chunk)
  /\ readByte(ip) = op
  /\ ~IndexOutOfRange

NoteDepth == IF ip \in DOMAIN depthAt THEN depthAt ELSE (ip :> stackTop) @@ depthAt

\* vm.stack[stackTop] = v; stackTop++; goto dispatch, after n operand bytes
PushNext(v, n) ==
  /\ stack' = StackPush(stack, v)
  /\ stackTop' = stackTop + 1
  /\ ip' = ip + 1 + n
  /\ depthAt' = NoteDepth
  /\ UNCHANGED <<input, program, lineNo, chunk, compileErr, status, frameCount,
                 globals, result, err, output>>

\* the two operands popped, v pushed
BinaryNext(v) ==
  /\ stack' = StackPush(StackDropN(stack, 2), v)
  /\ stackTop' = stackTop - 1
  /\ ip' = ip + 1
  /\ depthAt' = NoteDepth
  /\ UNCHANGED <<input, program, lineNo, chunk, compileErr, status, frameCount,
                 globals, result, err, output>>

\* the top of the stack replaced by v
UnaryNext(v) ==
  /\ stack' = StackPush(StackDrop(stack), v)
  /\ ip' = ip + 1
  /\ depthAt' = NoteDepth
  /\ UNCHANGED <<input, program, lineNo, chunk, compileErr, status, stackTop, frameCount,
                 globals, result, err, output>>

\* runtimeError: the line is chunk.Lines[vm.ip - 1] when vm.ip is in range
runtimeError(format, args, atIp) ==
  [format |-> format, args |-> args,
   line |-> IF atIp > 0 /\ atIp <= Len(chunk.lines) THEN chunk.lines[atIp] ELSE 0]

\* vm.stackTop = stackTop; vm.ip = ip; return NewNothing(), vm.runtimeError(...)
\* after the case has popped `popped` slots and read n operand bytes
\* a VM that records the error, pushes nothing for the failed operation and
\* carries on with the next instruction
ErrorReturnContinuing(format, args, popped, n) ==
  /\ err' = runtimeError(format, args, ip + 1 + n)
  /\ stack' = StackPush(StackDropN(stack, popped), NewNothing)
  /\ stackTop' = stackTop - popped + 1
  /\ ip' = ip + 1 + n
  /\ depthAt' = NoteDepth
  /\ UNCHANGED <<input, program, lineNo, chunk, compileErr, status, frameCount, globals,
                 result, output>>

ErrorReturn(format, args, popped, n) ==
  /\ status' = "error"
  /\ result' = NewNothing
  /\ err' = runtimeError(format, args, ip + 1 + n)
  /\ stack' = StackDropN(stack, popped)
  /\ stackTop' = stackTop - popped
  /\ ip' = ip + 1 + n
  /\ depthAt' = NoteDepth
  /\ UNCHANGED <<input, program, lineNo, chunk, compileErr, frameCount, globals, output>>

(***************************************************************************)
(* String storage.  NewString keeps the address of an interned string as   *)
(* an integer in the payload (uintptr(unsafe.Pointer(s))), which is no     *)
(* reference for the garbage collector: the storage is referenced by the   *)
(* intern table of its chunk alone.  From the `vm.chunk = chunk` of Run on *)
(* the chunk being run is the only chunk referenced (by vm.chunk and by    *)
(* the caller's variable), so the storage of every other chunk may have    *)
(* been collected and reused.  A read of `*v.AsString()` through such an   *)
(* address finds the old content, or other bytes (the content Garbage), or *)
(* faults.                                                                 *)
(***************************************************************************)
Garbage == "<garbage>"

Dangling(v) == IsString(v) /\ AsString(v).chunk # chunk.id

DanglingRefs(vs) == {AsString(v) : v \in {w \in vs : Dangling(w)}}

\* v as a read through it finds it, the storage at the addresses of `reused`
\* having been reused
Seen(v, reused) ==
  IF IsString(v) /\ AsString(v) \in reused
  THEN NewString([AsString(v) EXCEPT !.s = Garbage])
  ELSE v

\* the operands through which the case of the instruction at ip reads a string:
\* String() of both operands of a concatenating OP_ADD, of the arguments of
\* OP_YARN, and Equals of two strings that are not the same word
StringsRead ==
  CASE readByte(ip) = OP_ADD ->
         IF IsInt(StackPeek(stack, 1)) /\ IsInt(StackPeek(stack, 0)) THEN {}
         ELSE IF IsString(StackPeek(stack, 1)) \/ IsString(StackPeek(stack, 0))
         THEN {StackPeek(stack, 1), StackPeek(stack, 0)}
         ELSE {}
    [] readByte(ip) \in {OP_EQUAL, OP_NOT_EQUAL} ->
         IF /\ StackPeek(stack, 1) # StackPeek(stack, 0)
            /\ IsString(StackPeek(stack, 1)) /\ IsString(StackPeek(stack, 0))
         THEN {StackPeek(stack, 1), StackPeek(stack, 0)}
         ELSE {}
    [] readByte(ip) = OP_YARN -> {StackPeek(stack, k - 1) : k \in 1..readByte(ip + 1)}
    [] OTHER -> {}

\* the addresses among them whose storage may have been reused
Reusable == SUBSET DanglingRefs(StringsRead)

ExecConst0 == Dispatch(OP_CONST_0) /\ PushNext(NewInt(0), 0)

ExecConst1 == Dispatch(OP_CONST_1) /\ PushNext(NewInt(1), 0)

ExecConstMinus1 == Dispatch(OP_CONST_MINUS1) /\ PushNext(NewInt(-1), 0)

ExecNothing == Dispatch(OP_NOTHING) /\ PushNext(NewNothing, 0)

ExecTru == Dispatch(OP_TRU) /\ PushNext(NewBool(TRUE), 0)

ExecLie == Dispatch(OP_LIE) /\ PushNext(NewBool(FALSE), 0)

ExecConstI8 == Dispatch(OP_CONST_I8) /\ PushNext(NewInt(Int8(readByte(ip + 1))), 1)

ExecConstI16 == Dispatch(OP_CONST_I16) /\ PushNext(NewInt(Int16(readShort(ip + 1))), 2)

ExecConstant == Dispatch(OP_CONSTANT) /\ PushNext(chunk.constants[readShort(ip + 1) + 1], 2)

\* truncating division of Go's int64
GoDiv(a, b) ==
  IF (a >= 0) = (b >= 0) THEN (IF a >= 0 THEN a ELSE -a) \div (IF b >= 0 THEN b ELSE -b)
  ELSE -((IF a >= 0 THEN a ELSE -a) \div (IF b >= 0 THEN b ELSE -b))

\* a conversion that gives the name of the type instead of the value
valueToTypeName(v) == TypeName(v)

valueToString(v) == ValueString(v)

ExecAdd ==
  /\ Dispatch(OP_ADD)
  /\ \E reused \in Reusable :
     LET b == StackPeek(stack, 0)
         a == StackPeek(stack, 1)
         concat == valueToString(Seen(a, reused)) \o valueToString(Seen(b, reused))
     IN IF IsInt(a) /\ IsInt(b) THEN BinaryNext(NewInt(AsInt(a) + AsInt(b)))
        ELSE IF IsString(a) \/ IsString(b)
        THEN /\ chunk' = InternString(chunk, concat)
             /\ stack' = StackPush(StackDropN(stack, 2),
                                   NewString(InternedPtr(chunk, concat)))
             /\ stackTop' = stackTop - 1
             /\ ip' = ip + 1
             /\ depthAt' = NoteDepth
             /\ UNCHANGED <<input, program, lineNo, compileErr, status, frameCount,
                            globals, result, err, output>>
        ELSE ErrorReturn("I no fit add %s and %s", <<TypeName(a), TypeName(b)>>, 2, 0)

ExecSub ==
  /\ Dispatch(OP_SUB)
  /\ LET b == StackPeek(stack, 0)
         a == StackPeek(stack, 1)
     IN IF ~IsInt(a) \/ ~IsInt(b)
        THEN ErrorReturn("I no fit subtract %s and %s", <<TypeName(a), TypeName(b)>>, 2, 0)
        ELSE BinaryNext(NewInt(AsInt(a) - AsInt(b)))

ExecMul ==
  /\ Dispatch(OP_MUL)
  /\ LET b == StackPeek(stack, 0)
         a == StackPeek(stack, 1)
     IN IF ~IsInt(a) \/ ~IsInt(b)
        THEN ErrorReturn("I no fit multiply %s and %s", <<TypeName(a), TypeName(b)>>, 2, 0)
        ELSE BinaryNext(NewInt(AsInt(a) * AsInt(b)))

\* an OP_DIV without the test for a zero divisor, which yields 0 there
ExecDivUnchecked ==
  /\ Dispatch(OP_DIV)
  /\ LET b == StackPeek(stack, 0)
         a == StackPeek(stack, 1)
     IN IF ~IsInt(a) \/ ~IsInt(b)
        THEN ErrorReturn("I no fit divide %s and %s", <<TypeName(a), TypeName(b)>>, 2, 0)
        ELSE IF AsInt(b) = 0
        THEN BinaryNext(NewInt(0))
        ELSE BinaryNext(NewInt(GoDiv(AsInt(a), AsInt(b))))

ExecDiv ==
  /\ Dispatch(OP_DIV)
  /\ LET b == StackPeek(stack, 0)
         a == StackPeek(stack, 1)
     IN IF ~IsInt(a) \/ ~IsInt(b)
        THEN ErrorReturn("I no fit divide %s and %s", <<TypeName(a), TypeName(b)>>, 2, 0)
        ELSE IF AsInt(b) = 0
        THEN ErrorReturn("I no fit divide by zero o!", <<>>, 2, 0)
        ELSE BinaryNext(NewInt(GoDiv(AsInt(a), AsInt(b))))

ExecNegate ==
  /\ Dispatch(OP_NEGATE)
  /\ LET a == StackPeek(stack, 0)
     IN IF ~IsInt(a)
        THEN ErrorReturn("I no fit negate %s", <<TypeName(a)>>, 0, 0)
        ELSE UnaryNext(NewInt(-AsInt(a)))

ExecEqual ==
  /\ Dispatch(OP_EQUAL)
  /\ \E reused \in Reusable :
       BinaryNext(NewBool(Equals(Seen(StackPeek(stack, 1), reused),
                                 Seen(StackPeek(stack, 0), reused))))

ExecNotEqual ==
  /\ Dispatch(OP_NOT_EQUAL)
  /\ \E reused \in Reusable :
       BinaryNext(NewBool(~Equals(Seen(StackPeek(stack, 1), reused),
                                  Seen(StackPeek(stack, 0), reused))))

ExecGreater ==
  /\ Dispatch(OP_GREATER)
  /\ LET b == StackPeek(stack, 0)
         a == StackPeek(stack, 1)
     IN IF ~IsInt(a) \/ ~IsInt(b)
        THEN ErrorReturn("I no fit compare %s and %s", <<TypeName(a), TypeName(b)>>, 2, 0)
        ELSE BinaryNext(NewBool(AsInt(a) > AsInt(b)))

ExecLess ==
  /\ Dispatch(OP_LESS)
  /\ LET b == StackPeek(stack, 0)
         a == StackPeek(stack, 1)
     IN IF ~IsInt(a) \/ ~IsInt(b)
        THEN ErrorReturn("I no fit compare %s and %s", <<TypeName(a), TypeName(b)>>, 2, 0)
        ELSE BinaryNext(NewBool(AsInt(a) < AsInt(b)))

ExecNot == Dispatch(OP_NOT) /\ UnaryNext(NewBool(IsFalsey(StackPeek(stack, 0))))

\* stackTop--, with no check: below an empty stack stackTop goes negative
ExecPop ==
  /\ Dispatch(OP_POP)
  /\ stackTop' = stackTop - 1
  /\ stack' = IF stackTop > 0 THEN StackDrop(stack) ELSE stack
  /\ ip' = ip + 1
  /\ depthAt' = NoteDepth
  /\ UNCHANGED <<input, program, lineNo, chunk, compileErr, status, frameCount,
                 globals, result, err, output>>

ExecDup == Dispatch(OP_DUP) /\ PushNext(StackPeek(stack, 0), 0)

ExecGetGlobal ==
  /\ Dispatch(OP_GET_GLOBAL)
  /\ IF GlobalName(ip) \notin DOMAIN globals
     THEN ErrorReturn("I no sabi dis one: %s", <<GlobalName(ip)>>, 0, 2)
     ELSE PushNext(globals[GlobalName(ip)], 2)

\* an OP_SET_GLOBAL that consumes the value it stores
ExecSetGlobalPopping ==
  /\ Dispatch(OP_SET_GLOBAL)
  /\ globals' = (GlobalName(ip) :> StackPeek(stack, 0)) @@ globals
  /\ stack' = StackDrop(stack)
  /\ stackTop' = stackTop - 1
  /\ ip' = ip + 3
  /\ depthAt' = NoteDepth
  /\ UNCHANGED <<input, program, lineNo, chunk, compileErr, status,
                 frameCount, result, err, output>>

ExecSetGlobal ==
  /\ Dispatch(OP_SET_GLOBAL)
  /\ globals' = (GlobalName(ip) :> StackPeek(stack, 0)) @@ globals
  /\ ip' = ip + 3
  /\ depthAt' = NoteDepth
  /\ UNCHANGED <<input, program, lineNo, chunk, compileErr, status, stack, stackTop,
                 frameCount, result, err, output>>

\* ip moves to target; the stack loses `popped` slots
JumpNext(target, popped) ==
  /\ ip' = target
  /\ stack' = StackDropN(stack, popped)
  /\ stackTop' = stackTop - popped
  /\ depthAt' = NoteDepth
  /\ UNCHANGED <<input, program, lineNo, chunk, compileErr, status, frameCount,
                 globals, result, err, output>>

ExecJump == Dispatch(OP_JUMP) /\ JumpNext(ip + 3 + Int16(readShort(ip + 1)), 0)

ExecJumpIfLie ==
  /\ Dispatch(OP_JUMP_IF_LIE)
  /\ IF IsFalsey(StackPeek(stack, 0))
     THEN JumpNext(ip + 3 + Int16(readShort(ip + 1)), 1)
     ELSE JumpNext(ip + 3, 1)

ExecJumpIfTru ==
  /\ Dispatch(OP_JUMP_IF_TRU)
  /\ IF IsTruthy(StackPeek(stack, 0))
     THEN JumpNext(ip + 3 + Int16(readShort(ip + 1)), 1)
     ELSE JumpNext(ip + 3, 1)

ExecLoop == Dispatch(OP_LOOP) /\ JumpNext(ip + 3 - readShort(ip + 1), 0)

\* the text one OP_YARN writes before its newline: the arguments, first to last
RECURSIVE YarnText(_, _, _)
YarnText(st, argCount, reused) ==
  IF argCount = 0 THEN ""
  ELSE YarnText(StackDrop(st), argCount - 1, reused)
         \o valueToString(Seen(StackPeek(st, 0), reused))

ExecYarn ==
  /\ Dispatch(OP_YARN)
  /\ \E reused \in Reusable :
       output' = Append(output, YarnText(stack, readByte(ip + 1), reused))
  /\ stack' = StackPush(StackDropN(stack, readByte(ip + 1)), NewNothing)
  /\ stackTop' = stackTop - readByte(ip + 1) + 1
  /\ ip' = ip + 2
  /\ depthAt' = NoteDepth
  /\ UNCHANGED <<input, program, lineNo, chunk, compileErr, status, frameCount,
                 globals, result, err>>

ExecHalt ==
  /\ Dispatch(OP_HALT)
  /\ status' = "halted"
  /\ result' = IF stackTop > 0 THEN StackPeek(stack, 0) ELSE NewNothing
  /\ ip' = ip + 1
  /\ depthAt' = NoteDepth
  /\ UNCHANGED <<input, program, lineNo, chunk, compileErr, stack, stackTop, frameCount,
                 globals, err, output>>

\* the opcodes the switch of execute has a case for
HandledOpcodes ==
  {OP_CONST_0, OP_CONST_1, OP_CONST_MINUS1, OP_NOTHING, OP_TRU, OP_LIE, OP_CONST_I8,
   OP_CONST_I16, OP_CONSTANT, OP_ADD, OP_SUB, OP_MUL, OP_DIV, OP_NEGATE, OP_EQUAL,
   OP_NOT_EQUAL, OP_GREATER, OP_LESS, OP_NOT, OP_POP, OP_DUP, OP_GET_GLOBAL,
   OP_SET_GLOBAL, OP_JUMP, OP_JUMP_IF_LIE, OP_JUMP_IF_TRU, OP_LOOP, OP_YARN, OP_HALT}

\* default: any other byte
ExecDefault ==
  /\ status = "running"
  /\ ip >= 0
  /\ ip < Count(chunk)
  /\ readByte(ip) \notin HandledOpcodes
  /\ ErrorReturn("Unknown opcode: %d", <<readByte(ip)>>, 0, 0)

\* the first slot outside the array that the case at ip indexes
PanicSlot ==
  LET bad == BadSlots(readByte(ip), ip)
  IN IF readByte(ip) = OP_YARN
     THEN CHOOSE i \in bad : \A j \in bad : i <= j
     ELSE CHOOSE i \in bad : \A j \in bad : i >= j

\* Go's bounds check fails (nothing recovers): the process dies inside Run.
\* OP_YARN with no arguments has written its newline by then.
ExecPanic ==
  /\ status = "running"
  /\ IndexOutOfRange
  /\ status' = "panic"
  /\ err' = [format |-> "panic: runtime error: index out of range [%d]",
             args |-> IF /\ ip >= 0 /\ ip < Count(chunk)
                         /\ ip + OperandBytes(readByte(ip)) < Count(chunk)
                         /\ BadSlots(readByte(ip), ip) # {}
                      THEN <<PanicSlot>> ELSE <<>>,
             line |-> 0]
  /\ output' = IF /\ ip >= 0 /\ ip + 1 < Count(chunk)
                  /\ readByte(ip) = OP_YARN /\ readByte(ip + 1) = 0
               THEN Append(output, "") ELSE output
  /\ depthAt' = NoteDepth
  /\ UNCHANGED <<input, program, lineNo, chunk, compileErr, stack, stackTop, ip,
                 frameCount, globals, result>>

\* a read through an address whose storage was collected faults (nothing
\* recovers): the process dies inside Run
ExecFault ==
  /\ status = "running"
  /\ ~IndexOutOfRange
  /\ DanglingRefs(StringsRead) # {}
  /\ status' = "panic"
  /\ err' = [format |-> "fatal error: fault", args |-> <<>>, line |-> 0]
  /\ depthAt' = NoteDepth
  /\ UNCHANGED <<input, program, lineNo, chunk, compileErr, stack, stackTop, ip,
                 frameCount, globals, result, output>>

(***************************************************************************)
(* The inputs: syntax trees the parser produces, grouped by construct.     *)
(***************************************************************************)
Num(n) == IntegerLiteral(n)
Str(t) == StringLiteral(t)
Id(name) == Identifier(name)
E(e) == ExpressionStatement(e)

Operands == {Num(0), Num(1), Num(7), Str("a"), Boolean(TRUE), NothingLiteral}

InfixOperators ==
  {"+", "-", "*", "/", "be", "no be", "big pass", "no reach", "and", "or"}

Literals ==
  {Num(n) : n \in {0, 1, -1, 42, -128, 127, 128, -129, 300, -32768, 32767, 32768, 100000}}
    \cup {Str("a"), Str(""), Boolean(TRUE), Boolean(FALSE), NothingLiteral}

\* conditions of every kind of value: lie, the empty string, 0, a builtin
TruthinessPrograms ==
  {<<E(PrefixExpression("!", e))>> : e \in {Boolean(FALSE), Str(""), Id("len")}}
    \cup {<<E(InfixExpression(l, op, Num(5)))>> :
            l \in {Boolean(FALSE), Str(""), Id("len")}, op \in {"and", "or"}}
    \cup {<<E(SupposeAbiExpression(cond, <<E(Num(1))>>, <<E(Num(2))>>))>> :
            cond \in {Num(0), Str(""), NothingLiteral, Id("len")}}

ExpressionPrograms ==
  {<<E(e)>> : e \in Literals}
    \cup {<<E(PrefixExpression(op, r))>> : op \in {"-", "!"}, r \in Operands}
    \cup {<<E(InfixExpression(l, op, r))>> : l \in Operands, op \in InfixOperators,
                                             r \in Operands}
    \cup {<<E(Num(5)), E(Num(6)), E(Num(7))>>,
          <<E(InfixExpression(InfixExpression(Str("Hello"), "+", Str(" ")), "+",
                              Str("World")))>>,
          <<E(InfixExpression(Num(10), "/", Num(-3)))>>,
          <<E(InfixExpression(Str("n"), "+", Num(-129)))>>,
          <<E(Str("100000")), E(Num(100000))>>,
          <<E(Str("300")), E(Num(300))>>,
          <<E(Num(100000)), E(Str("100000"))>>,
          <<E(InfixExpression(Num(100000), "+", Str("")))>>,
          <<E(InfixExpression(Boolean(FALSE), "+", Str("s")))>>,
          <<E(Id("undefined_var"))>>,
          <<E(DoExpression)>>}
    \cup TruthinessPrograms

\* the blocks used as consequence and alternative
Blocks ==
  {<<>>,
   <<E(Num(1))>>,
   <<MakeStatement("a", Num(1))>>,
   <<E(Num(1)), E(Num(2))>>,
   <<MakeStatement("a", Num(1)), E(Num(2))>>,
   <<MakeStatement("a", Num(1)), MakeStatement("b", Num(2))>>}

Supposes ==
  {SupposeExpression(Boolean(b), cons) : b \in BOOLEAN, cons \in Blocks}
    \cup {SupposeAbiExpression(Boolean(b), cons, alt) :
            b \in BOOLEAN, cons \in Blocks, alt \in Blocks}

SupposePrograms ==
  {<<E(x)>> : x \in Supposes}
    \cup {<<MakeStatement("x", Num(5)), E(x)>> : x \in Supposes}
    \cup {<<E(x), E(Num(5))>> : x \in Supposes}
    \cup {<<E(SupposeAbiExpression(InfixExpression(Num(a), "big pass", Num(3)),
                                   <<E(Num(1))>>, <<E(Num(0))>>))>> : a \in {3, 5}}

\* make c be 0; dey do while c no reach n { make c be c + 1 }; c
CounterProgram(n) ==
  <<MakeStatement("c", Num(0)),
    E(WhileExpression(InfixExpression(Id("c"), "no reach", Num(n)),
                      <<MakeStatement("c", InfixExpression(Id("c"), "+", Num(1)))>>)),
    E(Id("c"))>>

\* the same loop as the program's last statement
CounterLoopLast(n) == SubSeq(CounterProgram(n), 1, 2)

WhilePrograms ==
  {CounterProgram(n) : n \in 0..MaxN}
    \cup {CounterLoopLast(n) : n \in 0..MaxN}
    \cup {<<E(WhileExpression(Boolean(FALSE), b)), E(Num(5))>> : b \in Blocks}
    \cup {<<MakeStatement("i", Num(0)), MakeStatement("count", Num(0)),
            E(WhileExpression(InfixExpression(Id("i"), "no reach", Num(2)),
                <<MakeStatement("i", InfixExpression(Id("i"), "+", Num(1))),
                  MakeStatement("count", InfixExpression(Id("count"), "+", Num(1)))>>)),
            E(Id("count"))>>,
          <<MakeStatement("c", Num(0)),
            E(WhileExpression(InfixExpression(Id("c"), "<", Num(2)),
                <<MakeStatement("c", InfixExpression(Id("c"), "+", Num(1))),
                  E(CallExpression(Id("yarn"), <<Id("c")>>)), E(Id("c"))>>)),
            E(Id("c"))>>}

\* make k be 100000; k + 100000; len; len; "k": a large integer, a name, a
\* builtin and a string literal, each added to the pool more than once
RepeatedConstants ==
  <<MakeStatement("k", Num(100000)), E(InfixExpression(Id("k"), "+", Num(100000))),
    E(Id("len")), E(Id("len")), E(Str("k"))>>

GlobalPrograms ==
  {<<MakeStatement("x", Num(42)), E(Id("x"))>>,
   <<MakeStatement("x", Num(42)), MakeStatement("y", Num(10)),
     E(InfixExpression(Id("x"), "+", Id("y")))>>,
   <<MakeStatement("x", Num(10)), MakeStatement("x", Num(20)), E(Id("x"))>>,
   <<MakeStatement("x", Num(300)), MakeStatement("y", Id("x")),
     MakeStatement("x", Str("s")), E(InfixExpression(Id("x"), "+", Id("y")))>>,
   <<MakeStatement("name", Str("Chidi")), E(Id("name"))>>,
   <<MakeStatement("x", Num(1))>>,
   <<E(SupposeExpression(Boolean(FALSE), <<MakeStatement("x", Num(1))>>)), E(Id("x"))>>,
   <<E(Id("p")), E(Id("q"))>>,
   <<MakeStatement("x", Id("x"))>>,
   <<MakeStatement("a", Num(1)), E(InfixExpression(Id("a"), "+", Id("b"))), E(Id("c"))>>,
   <<E(CallExpression(Id("nobody"), <<Id("arg")>>))>>,
   <<E(SupposeExpression(Id("a"), <<MakeStatement("a", Num(1))>>))>>,
   <<E(DoExpression), E(Id("p"))>>,
   <<MakeStatement("len", Num(5)), E(Id("len"))>>,
   RepeatedConstants,
   <<MakeStatement("type", Num(7)), MakeStatement("type", Str("t")), E(Id("type"))>>}

\* yarn("a"); make g be 1; 10 / 0; yarn("b"); make g be 2
PrintThenFail ==
  <<E(CallExpression(Id("yarn"), <<Str("a")>>)), MakeStatement("g", Num(1)),
    E(InfixExpression(Num(10), "/", Num(0))),
    E(CallExpression(Id("yarn"), <<Str("b")>>)), MakeStatement("g", Num(2))>>

CallPrograms ==
  {<<E(CallExpression(Id("yarn"), args))>> :
      args \in {<<>>, <<Str("Hello")>>, <<Num(1), Str("a")>>, <<Boolean(TRUE), NothingLiteral>>}}
    \cup {<<E(CallExpression(Id("yarn"), <<Str("a")>>)), E(Num(5))>>,
          <<E(CallExpression(Id("len"), <<Str("a")>>))>>,
          <<E(CallExpression(Id("type"), <<Num(1)>>))>>,
          <<E(CallExpression(Id("nobody"), <<>>))>>,
          <<BringStatement(Num(5))>>,
          <<BringNothingStatement>>,
          PrintThenFail}
    \cup {<<MakeStatement("f", Num(1)), E(CallExpression(Id("f"), args))>> :
            args \in {<<>>, <<Num(1)>>, <<Num(1), Num(2)>>, <<Num(1), Num(2), Num(3)>>}}

\* l and r, l or r, l abi r with a right operand that prints, fails, writes a
\* global or does none of it
ShortCircuitLefts ==
  {Boolean(FALSE), NothingLiteral, Boolean(TRUE), Num(0), Str(""),
   CallExpression(Id("yarn"), <<Str("l")>>)}

ShortCircuitRights ==
  {Num(5), CallExpression(Id("yarn"), <<Str("r")>>), InfixExpression(Num(10), "/", Num(0)),
   SupposeExpression(Boolean(TRUE), <<MakeStatement("g", Num(1))>>)}

ShortCircuitPrograms ==
  {<<E(InfixExpression(l, op, r))>> :
     l \in ShortCircuitLefts, op \in {"and", "or", "abi"}, r \in ShortCircuitRights}

Programs ==
  ExpressionPrograms \cup SupposePrograms \cup WhilePrograms \cup GlobalPrograms
    \cup CallPrograms \cup ShortCircuitPrograms

\* sessions of several lines, as typed into the REPL
QuickStartSession ==
  <<<<MakeStatement("x", Num(10))>>, <<MakeStatement("y", Num(5))>>,
    <<E(InfixExpression(Id("x"), "+", Id("y")))>>>>

\* make s be "a" / suppose lie { make s be 1 }; s no be "a"; s be "a": the
\* second line reads through the address the first line stored
StoredStringSession ==
  <<<<MakeStatement("s", Str("a"))>>,
    <<E(SupposeExpression(Boolean(FALSE), <<MakeStatement("s", Num(1))>>)),
      E(InfixExpression(Id("s"), "no be", Str("a"))),
      E(InfixExpression(Id("s"), "be", Str("a")))>>>>

ReplSessions ==
  {QuickStartSession,
   <<<<MakeStatement("x", Num(10))>>,
     <<MakeStatement("x", InfixExpression(Num(1), "+", Num(1))), E(Id("x"))>>>>,
   <<<<MakeStatement("s", Str("a"))>>,
     <<MakeStatement("s", Str("b")), E(InfixExpression(Id("s"), "+", Str("a")))>>>>,
   <<<<E(InfixExpression(Num(10), "/", Num(0)))>>, <<E(Num(5))>>>>,
   <<<<E(Id("x"))>>, <<MakeStatement("x", Num(1)), E(Id("x"))>>>>,
   <<<<MakeStatement("g", Num(7)), E(InfixExpression(Num(10), "/", Num(0)))>>,
     <<E(Num(5))>>>>,
   StoredStringSession}

Sessions == {<<p>> : p \in Programs} \cup ReplSessions

(***************************************************************************)
(* Specification.                                                          *)
(***************************************************************************)
Init ==
  /\ input \in Sessions
  /\ program = <<>>
  /\ lineNo = 0
  /\ chunk = NewChunk(0)
  /\ compileErr = ""
  /\ status = "idle"
  /\ stack = <<>>
  /\ stackTop = 0
  /\ ip = 0
  /\ frameCount = 0
  /\ globals = <<>>
  /\ result = NewNothing
  /\ err = NoError
  /\ output = <<>>
  /\ depthAt = <<>>

Next ==
  \/ CompileLine \/ Run
  \/ ExecConst0 \/ ExecConst1 \/ ExecConstMinus1 \/ ExecNothing \/ ExecTru \/ ExecLie
  \/ ExecConstI8 \/ ExecConstI16 \/ ExecConstant
  \/ ExecAdd \/ ExecSub \/ ExecMul \/ ExecDiv \/ ExecNegate
  \/ ExecEqual \/ ExecNotEqual \/ ExecGreater \/ ExecLess \/ ExecNot
  \/ ExecPop \/ ExecDup \/ ExecGetGlobal \/ ExecSetGlobal
  \/ ExecJump \/ ExecJumpIfLie \/ ExecJumpIfTru \/ ExecLoop
  \/ ExecYarn \/ ExecHalt \/ ExecDefault \/ ExecPanic \/ ExecFault

Spec == Init /\ [][Next]_vars

(***************************************************************************)
(* Runs that fill the operand stack.  The counter loop leaves one slot on  *)
(* the stack per iteration, so a run of CounterProgram(n) with n near      *)
(* STACK_MAX comes to the end of the array, after some nine instructions   *)
(* per slot.  SpecDeep starts such runs at the head of the loop after k    *)
(* iterations: CounterLoopHead(n, k) is the state the run from the start   *)
(* is in there, which CounterLoopHeadIsReached states for the runs of      *)
(* Spec.                                                                   *)
(***************************************************************************)
\* the offset of the loop's first instruction in the chunk of CounterProgram(n)
LoopStart(n) == Count(compileProgramUpTo(New(1), CounterProgram(n), 1).chunk)

\* stackTop after the case of op, less stackTop before it, when it returns no error
StackEffect(op, at, code) ==
  CASE op \in {OP_CONST_0, OP_CONST_1, OP_CONST_MINUS1, OP_NOTHING, OP_TRU, OP_LIE,
               OP_CONST_I8, OP_CONST_I16, OP_CONSTANT, OP_DUP, OP_GET_GLOBAL} -> 1
    [] op \in {OP_ADD, OP_SUB, OP_MUL, OP_DIV, OP_EQUAL, OP_NOT_EQUAL, OP_GREATER,
               OP_LESS, OP_POP, OP_JUMP_IF_LIE, OP_JUMP_IF_TRU} -> -1
    [] op = OP_YARN -> 1 - code[at + 2]
    [] OTHER -> 0

\* the depth at each offset from `at` on, dispatched in order up to the first OP_LOOP
RECURSIVE FirstPassDepths(_, _, _)
FirstPassDepths(code, at, depth) ==
  IF at >= Len(code) THEN <<>>
  ELSE IF code[at + 1] = OP_LOOP THEN (at :> depth)
  ELSE (at :> depth)
         @@ FirstPassDepths(code, at + 1 + OperandBytes(code[at + 1]),
                            depth + StackEffect(code[at + 1], at, code))

\* the state of the run of CounterProgram(n), as the only line of the session, when
\* it is at the head of the loop after k >= 1 iterations
CounterLoopHead(n, k) ==
  [input |-> <<>>,
   program |-> CounterProgram(n),
   lineNo |-> 1,
   chunk |-> Compile(New(1), CounterProgram(n)).chunk,
   compileErr |-> "",
   status |-> "running",
   stack |-> <<[v |-> NewInt(0), n |-> k + 1, d |-> 1]>>,
   stackTop |-> k + 1,
   ip |-> LoopStart(n),
   frameCount |-> 0,
   globals |-> ("c" :> NewInt(k)),
   result |-> NewNothing,
   err |-> NoError,
   output |-> <<>>,
   depthAt |-> FirstPassDepths(Compile(New(1), CounterProgram(n)).chunk.code, 0, 0)]

\* the variables have the values of the state s
InState(s) ==
  /\ input = s.input
  /\ program = s.program
  /\ lineNo = s.lineNo
  /\ chunk = s.chunk
  /\ compileErr = s.compileErr
  /\ status = s.status
  /\ stack = s.stack
  /\ stackTop = s.stackTop
  /\ ip = s.ip
  /\ frameCount = s.frameCount
  /\ globals = s.globals
  /\ result = s.result
  /\ err = s.err
  /\ output = s.output
  /\ depthAt = s.depthAt

\* a run of a counter program that is back at the head of its loop is in the state
\* CounterLoopHead gives for the iterations done
CounterLoopHeadIsReached ==
  \A n \in 1..MaxN :
    (program = CounterProgram(n) /\ lineNo = 1 /\ status = "running"
       /\ ip = LoopStart(n) /\ stackTop >= 2)
      => InState(CounterLoopHead(n, stackTop - 1))

\* the counts whose runs come to the last slots of the stack
DeepCounts == {STACK_MAX - 3, STACK_MAX - 2}

InitDeep ==
  \/ Init
  \/ \E n \in DeepCounts : InState(CounterLoopHead(n, n - 2))

SpecDeep == InitDeep /\ [][Next]_vars

(***************************************************************************)
(* A jump that does not fit.  suppose tru { yarn(yarn(...), ...) } with    *)
(* calls of yarn nested in the arguments of yarn: a call of yarn takes the *)
(* bytes of its arguments and 2 more (OP_YARN, count), a literal 300 takes *)
(* 3 (OP_CONST_I16).  With the numbers of arguments of LongFanOut, from    *)
(* the outermost call inwards, the calls take 50, 552, 6074 and 66816      *)
(* bytes, and the jump over the consequence and the OP_JUMP that follows   *)
(* it 3 more.                                                              *)
(***************************************************************************)
LongFanOut == <<11, 11, 11, 16>>

RECURSIVE Repeated(_, _)
Repeated(x, m) == IF m = 0 THEN <<>> ELSE Append(Repeated(x, m - 1), x)

RECURSIVE YarnTree(_)
YarnTree(fanOut) ==
  IF fanOut = <<>> THEN Num(300)
  ELSE CallExpression(Id("yarn"), Repeated(YarnTree(Tail(fanOut)), Head(fanOut)))

LongJumpProgram == <<E(SupposeExpression(Boolean(TRUE), <<E(YarnTree(LongFanOut))>>))>>

\* the REPL about to read a session
Idle(session) ==
  [input |-> session, program |-> <<>>, lineNo |-> 0, chunk |-> NewChunk(0),
   compileErr |-> "", status |-> "idle", stack |-> <<>>, stackTop |-> 0, ip |-> 0,
   frameCount |-> 0, globals |-> <<>>, result |-> NewNothing, err |-> NoError,
   output |-> <<>>, depthAt |-> <<>>]

\* suppose lie { yarn(yarn(...), ...) } with a consequence of 34872 bytes: a
\* jump of 34875 bytes, which patchJump accepts
FarFanOut == <<11, 11, 11, 8>>

FarJumpProgram == <<E(SupposeExpression(Boolean(FALSE), <<E(YarnTree(FarFanOut))>>))>>

InitLong ==
  \/ Init
  \/ InState(Idle(<<LongJumpProgram>>))
  \/ InState(Idle(<<FarJumpProgram>>))

SpecLong == InitLong /\ [][Next]_vars

(***************************************************************************)
(* The integer round trip on its own.  The state starts with an int64 in   *)
(* input; RoundTrip boxes it with NewInt and reads it back with AsInt,     *)
(* leaving the int64 in program, the boxed value in result and the int64   *)
(* read back in output.                                                    *)
(***************************************************************************)
Int64s ==
  {Int64(top, hi, lo) :
     top \in {0, 1, TOP_LIMB \div 2 - 1, TOP_LIMB \div 2, TOP_LIMB - 1},
     hi \in {0, 1, HALF_LIMB - 1, HALF_LIMB, LIMB - 1},
     lo \in {0, 1, 42, LIMB - 1}}

InitInt == \E i \in Int64s : InState(Idle(<<i>>))

RoundTrip ==
  /\ status = "idle"
  /\ input # <<>>
  /\ result' = NewIntOfWord(Head(input))
  /\ output' = <<AsIntWord(NewIntOfWord(Head(input)))>>
  /\ program' = input
  /\ input' = <<>>
  /\ status' = "halted"
  /\ UNCHANGED <<lineNo, chunk, compileErr, stack, stackTop, ip, frameCount, globals,
                 err, depthAt>>

NextInt == RoundTrip

SpecInt == InitInt /\ [][NextInt]_vars

(***************************************************************************)
(* Equals on its own, as TestEquals of value_test.go calls it: on two      *)
(* values made by the constructors, the strings each in storage of its own *)
(* (stringPtr allocates one per call; the chunk of a reference tells the   *)
(* allocations apart).  The state starts with the two values in input;     *)
(* ApplyEquals leaves them in program and the boolean in result.  The runs *)
(* of the REPL go on beside it.                                            *)
(***************************************************************************)
EqualsValues ==
  {NewInt(0), NewInt(1), NewInt(42), NewInt(43), NewInt(-1),
   NewBool(TRUE), NewBool(FALSE), NewNothing, NewBuiltin(0), NewBuiltin(1),
   NewString([chunk |-> 1, s |-> "test"]), NewString([chunk |-> 2, s |-> "test"]),
   NewString([chunk |-> 1, s |-> "other"]), NewString([chunk |-> 1, s |-> ""])}

InitEquals ==
  \/ Init
  \/ \E a \in EqualsValues, b \in EqualsValues :
       InState([Idle(<<a, b>>) EXCEPT !.status = "test"])

ApplyEquals ==
  /\ status = "test"
  /\ result' = NewBool(Equals(input[1], input[2]))
  /\ program' = input
  /\ input' = <<>>
  /\ status' = "tested"
  /\ UNCHANGED <<lineNo, chunk, compileErr, stack, stackTop, ip, frameCount, globals,
                 err, output, depthAt>>

NextEquals == ApplyEquals \/ Next

SpecEquals == InitEquals /\ [][NextEquals]_vars

(***************************************************************************)
(* Resolve on its own, as the tests of the symbol table call it: on a      *)
(* global table, a table enclosed in it and a table enclosed in that one,  *)
(* each with the names defined in it.  The state starts with the table and *)
(* the name in input; ApplyResolve leaves them in program and what Resolve *)
(* returned in result.                                                     *)
(***************************************************************************)
RECURSIVE DefineAll(_, _)
DefineAll(st, names) ==
  IF names = <<>> THEN st ELSE DefineAll(Define(st, Head(names)), Tail(names))

GlobalTables ==
  {DefineAll(DefineBuiltin(NewSymbolTable, 1, "len"), names) :
     names \in {<<>>, <<"a">>, <<"a", "b">>}}

FirstLocalTables ==
  {DefineAll(NewEnclosedSymbolTable(outer), names) :
     outer \in GlobalTables, names \in {<<>>, <<"c">>, <<"a">>, <<"c", "d">>}}

SecondLocalTables ==
  {DefineAll(NewEnclosedSymbolTable(outer), names) :
     outer \in FirstLocalTables, names \in {<<>>, <<"e">>, <<"c">>, <<"e", "f">>}}

SymbolTables == GlobalTables \cup FirstLocalTables \cup SecondLocalTables

ResolvedNames == {"a", "c", "d", "e", "len", "z"}

InitResolve ==
  \E st \in SymbolTables, name \in ResolvedNames :
    InState([Idle(<<st, name>>) EXCEPT !.status = "test"])

ApplyResolve ==
  /\ status = "test"
  /\ result' = [symbol |-> Resolve(input[1], input[2]), ok |-> ResolveOk(input[1], input[2])]
  /\ program' = input
  /\ input' = <<>>
  /\ status' = "tested"
  /\ UNCHANGED <<lineNo, chunk, compileErr, stack, stackTop, ip, frameCount, globals,
                 err, output, depthAt>>

NextResolve == ApplyResolve

SpecResolve == InitResolve /\ [][NextResolve]_vars

(***************************************************************************)
(* The arithmetic cases of execute at the full width of Go's int64, which  *)
(* the integers of the model above do not reach: `NewInt(a.AsInt() +       *)
(* b.AsInt())` and its like on int64 words (top, hi, lo).  Go's +, - and * *)
(* on int64 wrap modulo 2^64 and its / truncates toward zero.  The state   *)
(* starts with the two operands in input; an action applies one case and   *)
(* leaves the operands in program, the name of the opcode in output and    *)
(* the value pushed in result.                                             *)
(***************************************************************************)
Zero64 == Int64(0, 0, 0)
One64 == Int64(0, 0, 1)

Sign64(x) == x.top >= TOP_LIMB \div 2

Add64(x, y) ==
  Int64((x.top + y.top + (x.hi + y.hi + (x.lo + y.lo) \div LIMB) \div LIMB) % TOP_LIMB,
        (x.hi + y.hi + (x.lo + y.lo) \div LIMB) % LIMB,
        (x.lo + y.lo) % LIMB)

Not64(x) == Int64(TOP_LIMB - 1 - x.top, LIMB - 1 - x.hi, LIMB - 1 - x.lo)

Neg64(x) == Add64(Not64(x), One64)

Sub64(x, y) == Add64(x, Neg64(y))

\* the eight bytes of a word, lowest first, and the word of eight bytes
Bytes64(x) ==
  <<x.lo % 256, (x.lo \div 256) % 256, x.lo \div 65536,
    x.hi % 256, (x.hi \div 256) % 256, x.hi \div 65536,
    x.top % 256, x.top \div 256>>

OfBytes64(b) ==
  Int64(b[7] + 256 * b[8], b[4] + 256 * b[5] + 65536 * b[6], b[1] + 256 * b[2] + 65536 * b[3])

\* byte k of the product, before the carry: the sum of x[i] * y[k + 1 - i]
RECURSIVE ByteColumn(_, _, _, _)
ByteColumn(x, y, k, i) ==
  IF i > k THEN 0 ELSE x[i] * y[k + 1 - i] + ByteColumn(x, y, k, i + 1)

\* the bytes of the product from byte k on; what is carried out of byte 8 is lost
RECURSIVE MulBytes(_, _, _, _)
MulBytes(x, y, k, carry) ==
  IF k > 8 THEN <<>>
  ELSE <<(ByteColumn(x, y, k, 1) + carry) % 256>>
         \o MulBytes(x, y, k + 1, (ByteColumn(x, y, k, 1) + carry) \div 256)

Mul64(x, y) == OfBytes64(MulBytes(Bytes64(x), Bytes64(y), 1, 0))

\* unsigned comparison, doubling and bit i of a word
Less64(x, y) ==
  \/ x.top < y.top
  \/ x.top = y.top /\ x.hi < y.hi
  \/ x.top = y.top /\ x.hi = y.hi /\ x.lo < y.lo

Shl64(x) == Add64(x, x)

Bit64(x, i) ==
  IF i < 24 THEN (x.lo \div 2^i) % 2
  ELSE IF i < 48 THEN (x.hi \div 2^(i - 24)) % 2
  ELSE (x.top \div 2^(i - 48)) % 2

\* quotient and remainder of the unsigned n by d, bit i of n downwards: the
\* remainder so far is doubled and takes bit i (t), and d is taken from it where
\* it fits; the sets of one element hold each step's values
RECURSIVE UDivMod(_, _, _, _, _)
UDivMod(n, d, i, q, r) ==
  IF i < 0 THEN [q |-> q, r |-> r]
  ELSE CHOOSE m \in
         {UDivMod(n, d, i - 1, s[1], s[2]) :
            s \in {IF Less64(t, d) THEN <<Shl64(q), t>>
                   ELSE <<Add64(Shl64(q), One64), Sub64(t, d)>> :
                     t \in {Add64(Shl64(r), Int64(0, 0, Bit64(n, i)))}}} : TRUE

Abs64(x) == IF Sign64(x) THEN Neg64(x) ELSE x

\* a division that rounds toward minus infinity
Div64Floor(x, y) ==
  IF Sign64(x) = Sign64(y) THEN UDivMod(Abs64(x), Abs64(y), 63, Zero64, Zero64).q
  ELSE IF UDivMod(Abs64(x), Abs64(y), 63, Zero64, Zero64).r = Zero64
  THEN Neg64(UDivMod(Abs64(x), Abs64(y), 63, Zero64, Zero64).q)
  ELSE Neg64(Add64(UDivMod(Abs64(x), Abs64(y), 63, Zero64, Zero64).q, One64))

Div64(x, y) ==
  IF Sign64(x) = Sign64(y) THEN UDivMod(Abs64(x), Abs64(y), 63, Zero64, Zero64).q
  ELSE Neg64(UDivMod(Abs64(x), Abs64(y), 63, Zero64, Zero64).q)

\* the 48-bit integers as values
IntValues ==
  {NewIntOfWord(Int64(0, hi, lo)) :
     hi \in {0, 1, 1193046, HALF_LIMB - 1, HALF_LIMB, LIMB - 1},
     lo \in {0, 1, 2, 7, LIMB - 7, LIMB - 1}}

InitArith ==
  \E a \in IntValues, b \in IntValues :
    InState([Idle(<<a, b>>) EXCEPT !.status = "test"])

\* the case of op pushes v
Pushed(op, v) ==
  /\ result' = v
  /\ output' = <<op>>
  /\ program' = input
  /\ input' = <<>>
  /\ status' = "tested"
  /\ UNCHANGED <<lineNo, chunk, compileErr, stack, stackTop, ip, frameCount, globals,
                 err, depthAt>>

ApplyAdd ==
  /\ status = "test"
  /\ Pushed("ADD", NewIntOfWord(Add64(AsIntWord(input[1]), AsIntWord(input[2]))))

ApplySub ==
  /\ status = "test"
  /\ Pushed("SUB", NewIntOfWord(Sub64(AsIntWord(input[1]), AsIntWord(input[2]))))

ApplyMul ==
  /\ status = "test"
  /\ Pushed("MUL", NewIntOfWord(Mul64(AsIntWord(input[1]), AsIntWord(input[2]))))

ApplyDiv ==
  /\ status = "test"
  /\ AsIntWord(input[2]) # Zero64
  /\ Pushed("DIV", NewIntOfWord(Div64(AsIntWord(input[1]), AsIntWord(input[2]))))

ApplyNegate ==
  /\ status = "test"
  /\ Pushed("NEGATE", NewIntOfWord(Neg64(AsIntWord(input[1]))))

NextArith == ApplyAdd \/ ApplySub \/ ApplyMul \/ ApplyDiv \/ ApplyNegate

SpecArith == InitArith /\ [][NextArith]_vars

(***************************************************************************)
(* Properties.                                                             *)
(***************************************************************************)
\* the offset at which the code of the program's last statement starts
LastStart == Count(compileProgramUpTo(New(lineNo), program, Len(program) - 1).chunk)

LastStatement == program[Len(program)]

IndexPanic == "panic: runtime error: index out of range [%d]"

\* the block of a conditional with a literal condition that is run
TakenBlock(x) ==
  IF x.Condition.BoolValue THEN x.Consequence
  ELSE IF x.HasAlternative THEN x.Alternative
  ELSE <<>>

NoTrailingExpression(block) ==
  block = <<>> \/ block[Len(block)].kind # "ExpressionStatement"

\* the expressions whose value is read off the syntax tree: a literal, and a
\* conditional with a literal condition whose block that is run has no trailing
\* expression or a literal one
HasKnownValue(e) ==
  \/ e.kind \in {"IntegerLiteral", "Boolean", "NothingLiteral"}
  \/ /\ e.kind = "SupposeExpression"
     /\ e.Condition.kind = "Boolean"
     /\ \/ NoTrailingExpression(TakenBlock(e))
        \/ TakenBlock(e)[Len(TakenBlock(e))].Expression.kind = "IntegerLiteral"

KnownValue(e) ==
  CASE e.kind = "IntegerLiteral" -> NewInt(e.IntValue)
    [] e.kind = "Boolean" -> NewBool(e.BoolValue)
    [] e.kind = "NothingLiteral" -> NewNothing
    [] e.kind = "SupposeExpression" ->
         IF NoTrailingExpression(TakenBlock(e)) THEN NewNothing
         ELSE NewInt(TakenBlock(e)[Len(TakenBlock(e))].Expression.IntValue)

\* C1: while the VM executes a compiled chunk the operand stack never
\* underflows: stackTop never drops below 0 and no instruction indexes a slot
\* below the base of the stack.
C1_NoUnderflow ==
  /\ stackTop >= 0
  /\ (status = "panic" /\ err.format = IndexPanic /\ err.args # <<>>) => err.args[1] >= 0

\* C2: the stack depth at an instruction offset is the same on every visit:
\* whenever the run is about to dispatch an offset it dispatched before, the
\* depth is the depth of the first visit.
C2_StaticDepth ==
  (status = "running" /\ ip \in DOMAIN depthAt) => depthAt[ip] = stackTop

\* C3: running a chunk that Compile returned never returns an "Unknown opcode"
\* runtime error.
C3_NoUnknownOpcode == ~(status = "error" /\ err.format = "Unknown opcode: %d")

\* C4: a push beyond the STACK_MAX entries of the operand stack never makes
\* Run crash on a slot outside the array (it returns a runtime error).
C4_OverflowIsRuntimeError ==
  ~(status = "panic" /\ err.format = IndexPanic /\ err.args # <<>>
      /\ err.args[1] >= STACK_MAX)

\* C5: in the REPL session `make x be 10`, `make y be 5`, `x + y` the third
\* line compiles and runs without error and yields 15.
C5_ReplSeesEarlierGlobals ==
  (lineNo = 3 /\ program = QuickStartSession[3])
    => /\ status \notin {"compile_error", "error", "panic"}
       /\ status = "halted" => result = NewInt(15)

\* C6: for a program whose last statement is an expression statement, Run
\* returns the value of that expression (here: of an expression whose value
\* is read off the syntax tree).
C6_RunReturnsLastExpression ==
  (/\ status = "halted" /\ program # <<>>
   /\ LastStatement.kind = "ExpressionStatement"
   /\ HasKnownValue(LastStatement.Expression))
    => result = KnownValue(LastStatement.Expression)

CounterCounts == (0..MaxN) \cup DeepCounts

\* C8: the program that binds a counter to 0, loops while it is below N with
\* a body that rebinds it to counter + 1, and then reads it, runs to HALT
\* and returns N, the body having run N times.
C8_CounterLoopReturnsN ==
  \A n \in CounterCounts :
    program = CounterProgram(n)
      => /\ status \notin {"panic", "error"}
         /\ status = "halted" => (result = NewInt(n) /\ globals["c"] = NewInt(n))

\* C9: a conditional leaves exactly one value on the stack: for a program
\* whose last statement is a conditional with a literal condition, at HALT
\* the stack is one deeper than where the conditional started, and the value
\* is null when the block that ran has no trailing expression.
C9_SupposeLeavesOneValue ==
  (/\ status = "halted" /\ program # <<>>
   /\ LastStatement.kind = "ExpressionStatement"
   /\ LastStatement.Expression.kind = "SupposeExpression"
   /\ LastStatement.Expression.Condition.kind = "Boolean")
    => /\ LastStart \in DOMAIN depthAt
       /\ stackTop = depthAt[LastStart] + 1
       /\ NoTrailingExpression(TakenBlock(LastStatement.Expression))
            => result = NewNothing

\* C10: OP_SET_GLOBAL stores the top of the stack under its name without
\* popping it and without changing another global; OP_GET_GLOBAL of a defined
\* name pushes the value the table holds for it; and nothing but OP_SET_GLOBAL
\* changes the table, so that value is the one stored last.
C10_SetThenGetGlobal ==
  [][/\ (status = "running" /\ status' = "running" /\ ip < Count(chunk)
           /\ readByte(ip) = OP_SET_GLOBAL)
        => /\ globals'[GlobalName(ip)] = StackPeek(stack, 0)
           /\ DOMAIN globals' = DOMAIN globals \cup {GlobalName(ip)}
           /\ \A g \in DOMAIN globals \ {GlobalName(ip)} : globals'[g] = globals[g]
           /\ stackTop' = stackTop
           /\ stack' = stack
     /\ (status = "running" /\ status' = "running" /\ ip < Count(chunk)
           /\ readByte(ip) = OP_GET_GLOBAL)
        => /\ stackTop' = stackTop + 1
           /\ StackPeek(stack', 0) = globals[GlobalName(ip)]
     /\ globals' # globals
        => (status = "running" /\ ip < Count(chunk) /\ readByte(ip) = OP_SET_GLOBAL)
    ]_vars

C10_Witness ==
  /\ status = "halted"
  /\ program = <<MakeStatement("x", Num(10)), MakeStatement("x", Num(20)), E(Id("x"))>>
  /\ globals["x"] = NewInt(20)
  /\ result = NewInt(20)
  /\ stackTop = 3

\* C11: every call of Run starts with stack depth 0, frame count 0 and
\* instruction pointer 0, whatever the previous run left, and the globals
\* table is not changed by the call nor by anything between two runs.
C11_RunResetsButKeepsGlobals ==
  [][/\ (status = "compiled" /\ status' = "running")
        => /\ stackTop' = 0
           /\ stack' = <<>>
           /\ frameCount' = 0
           /\ ip' = 0
           /\ globals' = globals
     /\ status # "running" => globals' = globals
    ]_vars

\* the second line of a session starts its run at depth 0 with the global of
\* the first line, whose run ended with a runtime error above a non-empty stack
C11_Witness ==
  /\ lineNo = 2
  /\ program = <<E(Num(5))>>
  /\ status = "running"
  /\ ip = 0
  /\ stackTop = 0
  /\ globals = ("g" :> NewInt(7))

\* the instruction about to be dispatched is one of the failing cases: its
\* operands are on the stack and have the kinds named
RuntimeErrorCase ==
  /\ status = "running"
  /\ ip < Count(chunk)
  /\ ~IndexOutOfRange
  /\ \/ /\ readByte(ip) = OP_DIV
        /\ IsInt(StackPeek(stack, 1)) /\ IsInt(StackPeek(stack, 0))
        /\ AsInt(StackPeek(stack, 0)) = 0
     \/ /\ readByte(ip) \in {OP_SUB, OP_MUL, OP_DIV, OP_GREATER, OP_LESS}
        /\ ~IsInt(StackPeek(stack, 1)) \/ ~IsInt(StackPeek(stack, 0))
     \/ /\ readByte(ip) = OP_NEGATE
        /\ ~IsInt(StackPeek(stack, 0))
     \/ /\ readByte(ip) = OP_ADD
        /\ ~(IsInt(StackPeek(stack, 1)) /\ IsInt(StackPeek(stack, 0)))
        /\ ~IsString(StackPeek(stack, 1)) /\ ~IsString(StackPeek(stack, 0))
     \/ /\ readByte(ip) = OP_GET_GLOBAL
        /\ GlobalName(ip) \notin DOMAIN globals

\* C12: division by zero, arithmetic or comparison on a non-integer (ADD:
\* with no string operand either) and GET_GLOBAL of an absent name make Run
\* return a runtime error and the null value, never a result.
C12_RuntimeErrorCases ==
  [][RuntimeErrorCase
       => (status' = "error" /\ result' = NewNothing /\ err'.format # "")]_vars

C12_Witness ==
  /\ status = "error"
  /\ program = <<E(InfixExpression(Num(10), "/", Num(0)))>>
  /\ err.format = "I no fit divide by zero o!"
  /\ result = NewNothing

(***************************************************************************)
(* Source lines.  lexer.New starts counting at line 1 and stamps every     *)
(* token with the current line; the inputs of the model are one-line       *)
(* programs, so every token, the failing operator included, is on line 1.  *)
(***************************************************************************)
SourceLine == 1

\* C13: the runtime error that Run returns carries the source line of the
\* failing operator (for `10 / 0`, the line of the `/`)
C13_ErrorCarriesSourceLine ==
  status = "error" => err.line = SourceLine

(***************************************************************************)
(* The failures of a tree, in the order in which Compile meets them: a     *)
(* reference to a name that is neither a builtin nor bound by a make       *)
(* statement compiled before it (undefined), or a construct the compiler   *)
(* has no case for.  A make statement binds its name after its value; the  *)
(* arguments of a call come before the called name.                        *)
(***************************************************************************)
Builtins == {"yarn", "len", "type"}

Undefined(name) == [undefined |-> TRUE, name |-> name]
Unsupported(what) == [undefined |-> FALSE, name |-> what]

Failing(w, failure) == [w EXCEPT !.failures = Append(@, failure)]
Binding(w, name) == [w EXCEPT !.defined = @ \cup {name}]
Referring(w, name) == IF name \in w.defined THEN w ELSE Failing(w, Undefined(name))
WithOperator(w, operator, known) ==
  IF operator \in known THEN w ELSE Failing(w, Unsupported(operator))

RECURSIVE WalkExpression(_, _)
RECURSIVE WalkStatements(_, _, _)
RECURSIVE WalkExpressions(_, _, _)

WalkExpression(w, e) ==
  CASE e.kind \in {"IntegerLiteral", "StringLiteral", "Boolean", "NothingLiteral"} -> w
    [] e.kind = "Identifier" -> Referring(w, e.Name)
    [] e.kind = "PrefixExpression" ->
         WithOperator(WalkExpression(w, e.Right), e.Operator, {"-", "!", "no", "no be"})
    [] e.kind = "InfixExpression" ->
         WithOperator(WalkExpression(WalkExpression(w, e.Left), e.Right), e.Operator,
                      {"+", "-", "*", "/", "be", "na", "==", "no be", "!=", "big pass",
                       ">", "no reach", "<", "and", "abi", "or"})
    [] e.kind = "SupposeExpression" ->
         WalkStatements(WalkStatements(WalkExpression(w, e.Condition), e.Consequence, 1),
                        e.Alternative, 1)
    [] e.kind = "WhileExpression" ->
         WalkStatements(WalkExpression(w, e.Condition), e.Body, 1)
    [] e.kind = "CallExpression" ->
         WalkExpression(WalkExpressions(w, e.Arguments, 1), e.Function)
    [] OTHER -> Failing(w, Unsupported(e.kind))

WalkExpressions(w, es, i) ==
  IF i > Len(es) THEN w ELSE WalkExpressions(WalkExpression(w, es[i]), es, i + 1)

WalkStatements(w, stmts, i) ==
  IF i > Len(stmts) THEN w
  ELSE WalkStatements(
         CASE stmts[i].kind = "ExpressionStatement" -> WalkExpression(w, stmts[i].Expression)
           [] stmts[i].kind = "MakeStatement" ->
                Binding(WalkExpression(w, stmts[i].Value), stmts[i].Name)
           [] stmts[i].kind = "BringStatement" /\ stmts[i].HasValue ->
                WalkExpression(w, stmts[i].ReturnValue)
           [] OTHER -> w,
         stmts, i + 1)

Failures(prog) == WalkStatements([defined |-> Builtins, failures |-> <<>>], prog, 1).failures

FailsOnUndefined(prog) == Failures(prog) # <<>> /\ Failures(prog)[1].undefined

\* C14: compiling a tree whose first failure is a reference to an undefined
\* name returns an error naming that identifier and no chunk, and does not go
\* on to later statements
C14_UndefinedIdentifier ==
  [][(input # <<>> /\ input' = Tail(input) /\ FailsOnUndefined(Head(input)))
       => /\ status' = "compile_error"
          /\ compileErr' = "I no sabi dis one: " \o Failures(Head(input))[1].name
          /\ chunk' = chunk]_vars

C14_Witness ==
  /\ status = "compile_error"
  /\ program = <<E(Id("p")), E(Id("q"))>>
  /\ compileErr = "I no sabi dis one: p"

\* C15: when the distance of a forward jump exceeds 65535 bytes, Compile returns
\* a compile error to its caller: it does not crash and returns no chunk
C15_JumpOverflowIsCompileError ==
  program = LongJumpProgram => (status = "compile_error" /\ compileErr # "")

\* C16: executing a chunk never modifies its code, constants or intern table,
\* so the VMs that share a chunk write to nothing they share
C16_RunNeverWritesChunk ==
  [][status = "running" => chunk' = chunk]_vars

\* C17: within a run, a step prints only when its instruction is OP_YARN, and
\* then appends to what was printed, and writes a global only when its
\* instruction is OP_SET_GLOBAL; once an instruction has raised a runtime
\* error nothing more is printed and no global is written, and what was
\* printed and written before stays
C17_EffectsInOrderNoneAfterError ==
  [][/\ output' # output
          => /\ status = "running" /\ err = NoError
             /\ ip < Count(chunk) /\ readByte(ip) = OP_YARN
             /\ Len(output') = Len(output) + 1
             /\ SubSeq(output', 1, Len(output)) = output
     /\ globals' # globals
          => /\ status = "running" /\ err = NoError
             /\ ip < Count(chunk) /\ readByte(ip) = OP_SET_GLOBAL
             /\ \A name \in DOMAIN globals :
                  name # GlobalName(ip) => (name \in DOMAIN globals'
                                             /\ globals'[name] = globals[name])
     /\ err # NoError => (output' = output /\ globals' = globals)]_vars

C17_Witness ==
  /\ program = PrintThenFail
  /\ status = "error"
  /\ err.format = "I no fit divide by zero o!"
  /\ output = <<"a">>
  /\ globals = ("g" :> NewInt(1))

(***************************************************************************)
(* Stringification as the specification words it: an integer as its        *)
(* decimal form, a boolean as tru or lie, null as nothing, a string as its *)
(* content.                                                                *)
(***************************************************************************)
Digit(d) == <<"0", "1", "2", "3", "4", "5", "6", "7", "8", "9">>[d + 1]

RECURSIVE Decimal(_)
Decimal(n) ==
  IF n < 0 THEN "-" \o Decimal(0 - n)
  ELSE IF n < 10 THEN Digit(n)
  ELSE Decimal(n \div 10) \o Digit(n % 10)

Stringified(v) ==
  CASE IsInt(v) -> Decimal(AsInt(v))
    [] IsBool(v) -> IF AsBool(v) THEN "tru" ELSE "lie"
    [] IsNothing(v) -> "nothing"
    [] IsString(v) -> AsString(v).s

Stringifiable(v) == IsInt(v) \/ IsBool(v) \/ IsNothing(v) \/ IsString(v)

\* the instruction at ip is an ADD of two values at least one of which is a string
AddOfString ==
  /\ status = "running" /\ ip < Count(chunk) /\ readByte(ip) = OP_ADD
  /\ stackTop >= 2
  /\ IsString(StackPeek(stack, 0)) \/ IsString(StackPeek(stack, 1))
  /\ Stringifiable(StackPeek(stack, 0)) /\ Stringifiable(StackPeek(stack, 1))

\* C18: ADD with at least one string operand replaces its operands by the
\* string that is the stringified left operand followed by the stringified
\* right operand
C18_AddConcatenates ==
  [][AddOfString
       => /\ status' = "running"
          /\ stackTop' = stackTop - 1
          /\ IsString(StackPeek(stack', 0))
          /\ AsString(StackPeek(stack', 0)).s
               = Stringified(StackPeek(stack, 1)) \o Stringified(StackPeek(stack, 0))]_vars

C18_Witness ==
  /\ program = <<E(InfixExpression(InfixExpression(Str("Hello"), "+", Str(" ")), "+",
                                   Str("World")))>>
  /\ status = "halted"
  /\ IsString(result)
  /\ AsString(result).s = "Hello World"

\* the instruction the specification gives an integer literal: the narrowest
\* that fits
NarrowestOpcode(v) ==
  CASE v = 0 -> OP_CONST_0
    [] v = 1 -> OP_CONST_1
    [] v = -1 -> OP_CONST_MINUS1
    [] v \notin {0, 1, -1} /\ v >= -128 /\ v <= 127 -> OP_CONST_I8
    [] (v < -128 \/ v > 127) /\ v >= -32768 /\ v <= 32767 -> OP_CONST_I16
    [] OTHER -> OP_CONSTANT

\* the run is at the instruction of the integer literal that is the program's
\* last statement, with a slot of the stack free for its value
AtLastLiteral ==
  /\ status = "running" /\ program # <<>>
  /\ LastStatement.kind = "ExpressionStatement"
  /\ LastStatement.Expression.kind = "IntegerLiteral"
  /\ ip = LastStart
  /\ stackTop >= 0 /\ stackTop < STACK_MAX

\* C19: the instruction compiled for an integer literal v is the narrowest that
\* fits v, and executing it pushes the integer v
C19_NarrowestLiteralPushesValue ==
  [][AtLastLiteral
       => /\ readByte(ip) = NarrowestOpcode(LastStatement.Expression.IntValue)
          /\ stackTop' = stackTop + 1
          /\ StackPeek(stack', 0) = NewInt(LastStatement.Expression.IntValue)]_vars

\* the int64 values of the 48-bit range, -2^47 .. 2^47 - 1: bits 47..63 all
\* equal
Fits48(i) ==
  \/ i.top = 0 /\ i.hi < HALF_LIMB
  \/ i.top = TOP_LIMB - 1 /\ i.hi >= HALF_LIMB

IsNegative(i) == i.top >= TOP_LIMB \div 2

\* C20: for every integer i of the 48-bit range NewInt(i) is tagged as an
\* integer and AsInt(NewInt(i)) is i, negative when i is
C20_IntRoundTrip ==
  (status = "halted" /\ Fits48(program[1]))
    => /\ IsInt(result)
       /\ output[1] = program[1]
       /\ IsNegative(program[1]) => IsNegative(output[1])

C20_Witness ==
  /\ status = "halted"
  /\ program = <<MIN_INT_48>>
  /\ IsInt(result)
  /\ output = <<MIN_INT_48>>
  /\ IsNegative(output[1])

(***************************************************************************)
(* Equality as the specification words it.  Two values are the same word   *)
(* when tag and payload agree; the payload of a string is its address, so  *)
(* two strings are the same word when they are the same interned storage.  *)
(***************************************************************************)
BitIdentical(a, b) == a.tag = b.tag /\ a.hi = b.hi /\ a.lo = b.lo /\ a.ref = b.ref

SameContent(a, b) == IsString(a) /\ IsString(b) /\ AsString(a).s = AsString(b).s

\* the instruction at ip is op and its two operands are on the stack, the
\* strings among them in storage that is still referenced
AtBinary(op) ==
  /\ status = "running" /\ ip >= 0 /\ ip < Count(chunk) /\ readByte(ip) = op
  /\ stackTop >= 2
  /\ ~Dangling(StackPeek(stack, 1)) /\ ~Dangling(StackPeek(stack, 0))

\* C21: Equals(a, b) is true exactly when a and b are bit-identical or are
\* strings of equal content, hence false when their tags differ; EQ replaces
\* its operands a and b by that boolean and NEQ by its negation
C21_EqualByBitsOrContent ==
  [][/\ status = "test"
          => /\ status' = "tested"
             /\ result' = NewBool(\/ BitIdentical(input[1], input[2])
                                  \/ SameContent(input[1], input[2]))
             /\ GetTag(input[1]) # GetTag(input[2]) => result' = NewBool(FALSE)
     /\ AtBinary(OP_EQUAL)
          => /\ stackTop' = stackTop - 1
             /\ StackPeek(stack', 0)
                  = NewBool(\/ BitIdentical(StackPeek(stack, 1), StackPeek(stack, 0))
                            \/ SameContent(StackPeek(stack, 1), StackPeek(stack, 0)))
             /\ GetTag(StackPeek(stack, 1)) # GetTag(StackPeek(stack, 0))
                  => StackPeek(stack', 0) = NewBool(FALSE)
     /\ AtBinary(OP_NOT_EQUAL)
          => /\ stackTop' = stackTop - 1
             /\ StackPeek(stack', 0)
                  = NewBool(~(\/ BitIdentical(StackPeek(stack, 1), StackPeek(stack, 0))
                              \/ SameContent(StackPeek(stack, 1), StackPeek(stack, 0))))
             /\ GetTag(StackPeek(stack, 1)) # GetTag(StackPeek(stack, 0))
                  => StackPeek(stack', 0) = NewBool(TRUE)]_vars

\* two strings of the same content in storage of their own were found equal
C21_Witness ==
  /\ status = "tested"
  /\ program = <<NewString([chunk |-> 1, s |-> "test"]),
                 NewString([chunk |-> 2, s |-> "test"])>>
  /\ result = NewBool(TRUE)

\* falsey as the specification words it: boolean false and null, nothing else
FalseOrNull(v) == v = NewBool(FALSE) \/ v = NewNothing

\* the instruction at ip is op, with its operand bytes, and its one operand is
\* on the stack
AtUnary(op) ==
  /\ status = "running" /\ ip + OperandBytes(op) < Count(chunk) /\ readByte(ip) = op
  /\ stackTop >= 1

\* C22: JUMP_IF_LIE pops one value and goes to its target when the value is
\* boolean false or null and to the next instruction for any other value;
\* JUMP_IF_TRU pops one value and goes to its target for any other value and
\* to the next instruction for boolean false or null; NOT replaces the top
\* value by tru for boolean false or null and by lie for any other value
C22_FalseyIsFalseOrNull ==
  [][/\ AtUnary(OP_JUMP_IF_LIE)
          => /\ stackTop' = stackTop - 1
             /\ stack' = StackDrop(stack)
             /\ ip' = IF FalseOrNull(StackPeek(stack, 0))
                      THEN ip + 3 + Int16(readShort(ip + 1)) ELSE ip + 3
     /\ AtUnary(OP_JUMP_IF_TRU)
          => /\ stackTop' = stackTop - 1
             /\ stack' = StackDrop(stack)
             /\ ip' = IF FalseOrNull(StackPeek(stack, 0))
                      THEN ip + 3 ELSE ip + 3 + Int16(readShort(ip + 1))
     /\ AtUnary(OP_NOT)
          => /\ stackTop' = stackTop
             /\ StackDrop(stack') = StackDrop(stack)
             /\ StackPeek(stack', 0) = NewBool(FalseOrNull(StackPeek(stack, 0)))]_vars

\* suppose 0 { 1 } abi { 2 } took the consequence: the integer 0 is truthy
C22_Witness ==
  /\ program = <<E(SupposeAbiExpression(Num(0), <<E(Num(1))>>, <<E(Num(2))>>))>>
  /\ status = "halted"
  /\ result = NewInt(1)

\* the statements of the program that are a lone integer or string literal
\* whose instruction is the one at ip
LiteralsAtIp ==
  {k \in 1..Len(program) :
     /\ program[k].kind = "ExpressionStatement"
     /\ program[k].Expression.kind \in {"IntegerLiteral", "StringLiteral"}
     /\ ip = Count(compileProgramUpTo(New(lineNo), program, k - 1).chunk)}

\* v is what the literal e denotes: the integer of that value, or a string of
\* that content
Denotes(v, e) ==
  IF e.kind = "IntegerLiteral" THEN v = NewInt(e.IntValue)
  ELSE IsString(v) /\ AsString(v).s = e.StrValue

\* C23: the instruction compiled for an integer or string literal, whether it
\* loads from the constant pool or not, pushes the value of that literal: an
\* integer for an integer literal and a string of the same content for a
\* string literal, as in `"100000"; 100000` and `100000; "100000"`
C23_LiteralLoadsItsOwnValue ==
  [][(status = "running" /\ program # <<>> /\ stackTop >= 0 /\ stackTop < STACK_MAX)
       => \A k \in LiteralsAtIp :
            /\ stackTop' = stackTop + 1
            /\ Denotes(StackPeek(stack', 0), program[k].Expression)]_vars

\* the positions the compiler of the line being run meant its jumps and loops
\* to go to, by the offset of the operand
Targets == Compile(New(lineNo), program).targets

\* t is the offset of the first byte of an instruction of the code, counting
\* the instructions from offset `at` on
RECURSIVE IsOpcodeStart(_, _, _)
IsOpcodeStart(code, at, t) ==
  IF at >= Len(code) \/ at > t THEN FALSE
  ELSE IF at = t THEN TRUE
  ELSE IsOpcodeStart(code, at + 1 + OperandBytes(code[at + 1]), t)

\* the instruction at ip is a jump or a loop that is taken
TakenJump ==
  /\ status = "running" /\ ip >= 0 /\ ip + 2 < Count(chunk)
  /\ \/ readByte(ip) \in {OP_JUMP, OP_LOOP}
     \/ readByte(ip) = OP_JUMP_IF_LIE /\ stackTop >= 1 /\ IsFalsey(StackPeek(stack, 0))
     \/ readByte(ip) = OP_JUMP_IF_TRU /\ stackTop >= 1 /\ IsTruthy(StackPeek(stack, 0))

\* C24: a jump or loop that is taken goes on at the position the compiler
\* patched it with (for a loop, the recorded loop start), which is the first
\* byte of an instruction, for every distance the compiler accepts
C24_JumpLandsWhereCompiled ==
  [][TakenJump
       => /\ (ip + 1) \in DOMAIN Targets
          /\ ip' = Targets[ip + 1]
          /\ IsOpcodeStart(chunk.code, 0, ip')]_vars

\* C25: once the VM has run one chunk and then another, every string held in
\* the globals table is storage of a chunk that is still referenced (the
\* chunk run last, which vm.chunk and the caller hold), never storage of an
\* earlier chunk that nothing references any more
C25_GlobalsReferToLiveStorage ==
  (lineNo >= 2 /\ status \in {"halted", "error"})
    => \A name \in DOMAIN globals : ~Dangling(globals[name])

\* the program is top-level make statements of integer and string literals
\* followed by a reference to a name one of them binds
MakesThenReference ==
  /\ Len(program) >= 2
  /\ LastStatement.kind = "ExpressionStatement"
  /\ LastStatement.Expression.kind = "Identifier"
  /\ \A k \in 1..(Len(program) - 1) :
       /\ program[k].kind = "MakeStatement"
       /\ program[k].Value.kind \in {"IntegerLiteral", "StringLiteral"}
  /\ \E k \in 1..(Len(program) - 1) : program[k].Name = LastStatement.Expression.Name

\* the literal of the last make statement that binds the name referred to
LastBound ==
  program[CHOOSE k \in 1..(Len(program) - 1) :
            /\ program[k].Name = LastStatement.Expression.Name
            /\ \A j \in (k + 1)..(Len(program) - 1) :
                 program[j].Name # LastStatement.Expression.Name].Value

\* C26: after top-level `make n be e` statements, a later reference to n
\* evaluates to the value bound to n last, whatever name n the compiler
\* accepted as the target, `len` and `type` included
C26_ReferenceSeesLastMake ==
  (status = "halted" /\ MakesThenReference) => Denotes(result, LastBound)

\* the tables from st outward, st first
RECURSIVE Scopes(_)
Scopes(st) == IF HasOuter(st) THEN <<st>> \o Scopes(st.outer) ELSE <<st>>

\* the positions in Scopes(st) of the tables that define name
Holders(st, name) == {k \in 1..Len(Scopes(st)) : name \in DOMAIN Scopes(st)[k].store}

Innermost(st, name) == CHOOSE k \in Holders(st, name) : \A j \in Holders(st, name) : k <= j

\* the symbol of the innermost table that defines name
FirstMatch(st, name) == Scopes(st)[Innermost(st, name)].store[name]

\* C27: Resolve finds a name exactly when a table from the current one
\* outward defines it; a symbol of the current table, and a global or builtin
\* symbol of an outer table, is returned as the innermost table holds it; a
\* name that is a local of an outer table and is not defined in the current
\* one is not returned as a found SCOPE_LOCAL symbol
C27_ResolveHidesOuterLocals ==
  status = "tested"
    => /\ result.ok = (Holders(program[1], program[2]) # {})
       /\ Holders(program[1], program[2]) # {}
            => /\ (\/ Innermost(program[1], program[2]) = 1
                   \/ FirstMatch(program[1], program[2]).Scope
                        \in {SCOPE_GLOBAL, SCOPE_BUILTIN})
                    => result.symbol = FirstMatch(program[1], program[2])
               /\ (/\ Innermost(program[1], program[2]) > 1
                   /\ FirstMatch(program[1], program[2]).Scope = SCOPE_LOCAL)
                    => ~(result.ok /\ result.symbol.Scope = SCOPE_LOCAL)

(***************************************************************************)
(* Short circuit, read off the syntax tree of `l and r` and `l or r`: the  *)
(* value and the output of each operand, and whether the left operand      *)
(* decides.                                                                *)
(***************************************************************************)
IsYarnCall(e) == e.kind = "CallExpression" /\ e.Function = Id("yarn")

\* v is the value of the operand e
OperandValueIs(v, e) ==
  CASE IsYarnCall(e) -> v = NewNothing
    [] e.kind = "Boolean" -> v = NewBool(e.BoolValue)
    [] e.kind = "NothingLiteral" -> v = NewNothing
    [] e.kind \in {"IntegerLiteral", "StringLiteral"} -> Denotes(v, e)
    [] OTHER -> TRUE

\* what the operand e prints
OperandOutput(e) == IF IsYarnCall(e) THEN <<e.Arguments[1].StrValue>> ELSE <<>>

LeftIsFalsey(e) == IsYarnCall(e) \/ e = Boolean(FALSE) \/ e = NothingLiteral

\* the left operand decides: falsey for and, truthy for or
LeftDecides(e) ==
  IF e.Operator = "and" THEN LeftIsFalsey(e.Left) ELSE ~LeftIsFalsey(e.Left)

Divides(e) == e.kind = "InfixExpression" /\ e.Operator = "/"

\* the program being run is one short-circuit expression
RunsShortCircuit ==
  /\ program \in ShortCircuitPrograms
  /\ status \in {"running", "halted", "error", "panic"}

\* C28: in `l and r` with a falsey l, and in `l or r` with a truthy l, no code
\* of r runs (nothing of r is printed, no global is written, no error is
\* raised) and the value is that of l; otherwise the code of r runs after
\* that of l and the value is that of r; either way the expression leaves one
\* value on the stack
C28_ShortCircuit ==
  RunsShortCircuit
    => IF LeftDecides(program[1].Expression)
       THEN /\ status \notin {"error", "panic"}
            /\ globals = <<>>
            /\ output \in {<<>>, OperandOutput(program[1].Expression.Left)}
            /\ status = "halted"
                 => /\ OperandValueIs(result, program[1].Expression.Left)
                    /\ output = OperandOutput(program[1].Expression.Left)
                    /\ stackTop = 1
       ELSE /\ status # "panic"
            /\ status = "error" => Divides(program[1].Expression.Right)
            /\ status = "halted"
                 => /\ ~Divides(program[1].Expression.Right)
                    /\ OperandValueIs(result, program[1].Expression.Right)
                    /\ output = OperandOutput(program[1].Expression.Left)
                                 \o OperandOutput(program[1].Expression.Right)
                    /\ globals = IF program[1].Expression.Right.kind = "SupposeExpression"
                                 THEN ("g" :> NewInt(1)) ELSE <<>>
                    /\ stackTop = 1

\* lie and yarn("r") ended with the value lie and nothing printed
C28_Witness ==
  /\ program = <<E(InfixExpression(Boolean(FALSE), "and",
                                   CallExpression(Id("yarn"), <<Str("r")>>)))>>
  /\ status = "halted"
  /\ result = NewBool(FALSE)
  /\ output = <<>>
  /\ stackTop = 1

\* the compiler as Compile leaves it for the line that was compiled
Compiled == Compile(New(lineNo), program)

\* the values that Equals finds equal to the pooled value v: v, and for a
\* string the same content in other storage
EqualTo(v) ==
  IF IsString(v) THEN {v, NewString([chunk |-> 0, s |-> AsString(v).s])} ELSE {v}

\* C29: the pool of a compiled chunk holds no two entries that Equals finds
\* equal, and adding a value equal to an entry gives that entry's index and
\* leaves the pool as it is
C29_PoolHasNoEqualEntries ==
  status = "compiled"
    => /\ \A i, j \in 1..Len(chunk.constants) :
            Equals(chunk.constants[i], chunk.constants[j]) => i = j
       /\ \A i \in 1..Len(chunk.constants) :
            \A v \in EqualTo(chunk.constants[i]) :
              /\ Equals(v, chunk.constants[i])
              /\ addConstantIndex(Compiled, v) = i - 1
              /\ addConstant(Compiled, v).chunk.constants = chunk.constants

\* five additions of a large integer, a name, a builtin and a string left
\* three entries
C29_Witness ==
  /\ status = "compiled"
  /\ program = RepeatedConstants
  /\ chunk.constants
       = <<NewInt(100000), NewString([chunk |-> 1, s |-> "k"]), NewBuiltin(1)>>

(***************************************************************************)
(* Exact arithmetic on numbers written in base 4096, lowest digit first,   *)
(* to state what the arithmetic opcodes should push.                       *)
(***************************************************************************)
Base == 64 * 64

\* the four digits of the 48 bits of a value, and the same digits among eight
Residue(v) == <<v.lo % Base, v.lo \div Base, v.hi % Base, v.hi \div Base>>

Wide(x) == x \o <<0, 0, 0, 0>>

\* the sum of two numbers of as many digits, one digit longer
RECURSIVE Sum(_, _, _, _)
Sum(x, y, k, carry) ==
  IF k > Len(x) THEN <<carry>>
  ELSE <<(x[k] + y[k] + carry) % Base>> \o Sum(x, y, k + 1, (x[k] + y[k] + carry) \div Base)

RECURSIVE Column(_, _, _, _)
Column(x, y, k, i) ==
  IF i > Len(x) THEN 0
  ELSE (IF k + 1 - i \in 1..Len(y) THEN x[i] * y[k + 1 - i] ELSE 0) + Column(x, y, k, i + 1)

\* the product of two numbers, as long as both together
RECURSIVE Product(_, _, _, _)
Product(x, y, k, carry) ==
  IF k > Len(x) + Len(y) THEN <<>>
  ELSE <<(Column(x, y, k, 1) + carry) % Base>>
         \o Product(x, y, k + 1, (Column(x, y, k, 1) + carry) \div Base)

\* x < y for numbers of k digits
RECURSIVE Below(_, _, _)
Below(x, y, k) ==
  IF k = 0 THEN FALSE
  ELSE IF x[k] # y[k] THEN x[k] < y[k]
  ELSE Below(x, y, k - 1)

\* reduced modulo 2^48
Reduced(x) == SubSeq(x, 1, 4)

\* the residue of -x, the sign of the signed reading of x and its absolute value
Opposite(x) == Reduced(Sum([i \in 1..4 |-> Base - 1 - x[i]], <<1, 0, 0, 0>>, 1, 0))

Negative(x) == x[4] >= Base \div 2

Magnitude(x) == IF Negative(x) THEN Opposite(x) ELSE x

\* q is the residue of the quotient of a by b truncated toward zero:
\* |q| * |b| <= |a| < |q| * |b| + |b|, and q has the sign of the quotient
TruncatedQuotient(a, b, q) ==
  /\ ~Below(Wide(Magnitude(a)), Product(Magnitude(q), Magnitude(b), 1, 0), 8)
  /\ Below(Wide(Magnitude(a)) \o <<0>>,
           Sum(Product(Magnitude(q), Magnitude(b), 1, 0), Wide(Magnitude(b)), 1, 0), 9)
  /\ q = IF Negative(a) # Negative(b) THEN Opposite(Magnitude(q)) ELSE Magnitude(q)

====
